---------------------------- MODULE Spec2Model ----------------------------
(***************************************************************************)
(* One generateCaseAnalysis request of services/gemini.ts: the dispatcher, *)
(* the native (Google SDK) adapter, the OpenAI-compatible HTTP adapter and *)
(* its server-sent-event stream decoder; and the application around it    *)
(* (App, SettingsModal): the conversation, the sessions, the attachments   *)
(* and the settings form.                                                  *)
(*                                                                         *)
(* JavaScript strings are TLA+ strings.  The bytes of an HTTP response     *)
(* body are written as a string with one character per byte.  The module   *)
(* is plain ASCII: the non-ASCII character U+00E9 is written "#", the two  *)
(* bytes C3 A9 of its UTF-8 encoding are written "<" and ">", and U+FFFD   *)
(* is written "?".                                                         *)
(***************************************************************************)
EXTENDS Integers, Sequences, FiniteSets, TLC

VARIABLES
    provider,      \* settings.provider
    apiKey,        \* settings.apiKey
    baseUrl,       \* settings.baseUrl, "" when it is absent
    systemInstruction, \* settings.systemInstruction, "" when it is absent
    model,         \* settings.model, "" when the form's field is empty
    hasOnStream,   \* whether the optional onStream argument was passed
    onStreamThrowsAt, \* onStream throws at its k-th invocation, 0: it never throws
    prompt,        \* the prompt argument
    files,         \* the files argument: a sequence of AttachedFile
    pc,            \* where the call is
    requests,      \* the outbound generation requests issued so far
    status,        \* HTTP: response.status, 0 while there is no response
    errText,       \* HTTP: the text of the body of a non-ok response
    body,          \* HTTP: every byte of the response body the server sends
    wire,          \* HTTP: the bytes of body the reader has not yet returned
    pending,       \* HTTP: bytes the TextDecoder holds back (stream: true)
    buffer,        \* HTTP: let buffer
    chunks,        \* native: texts of the chunks the SDK iterator will yield
    consumed,      \* native: number of chunks already iterated
    fullText,      \* let fullText (either adapter)
    calls,         \* the values passed to onStream so far, in order
    result,        \* the string the promise resolved with
    thrown,        \* the message of the error the adapter threw
    error,         \* the message of the Error the promise rejected with
    peer,          \* a second call in flight at the same time: its locals
    analysisStatus,   \* App: status (AnalysisStatus)
    messages,         \* App: messages, the conversation on display
    input,            \* App: input, the content of the text box
    stagedFiles,      \* App: files, the attachments of the next message
    isSettingsOpen,   \* App: isSettingsOpen
    sessions,         \* App: sessions, the stored conversations, latest first
    currentSessionId, \* App: currentSessionId, 0 for null
    localSettings,    \* SettingsModal: localSettings, the form's copy of settings
    analyses,         \* the calls handleSubmit made to generateCaseAnalysis
    now               \* Date.now()

\* The arguments of the call.
inputs == <<provider, apiKey, baseUrl, systemInstruction, model, hasOnStream,
            onStreamThrowsAt, prompt, files>>

\* The state of the application around the calls.
ui == <<analysisStatus, messages, input, stagedFiles, isSettingsOpen, sessions,
        currentSessionId, localSettings, analyses, now>>

vars == <<inputs, pc, requests, status, errText, body, wire, pending, buffer, chunks,
          consumed, fullText, calls, result, thrown, error, peer, ui>>

(***************************************************************************)
(* Bounds of the model.                                                    *)
(***************************************************************************)
MaxLines == 3      \* lines of a response body
MaxChunks == 2     \* chunks the SDK iterator yields
MaxFiles == 2      \* files attached to a request

(***************************************************************************)
(* JavaScript string operations used by the code.                          *)
(***************************************************************************)
CharAt(s, i) == SubSeq(s, i, i)

StartsWith(s, p) == Len(s) >= Len(p) /\ SubSeq(s, 1, Len(p)) = p

Slice(s, n) == SubSeq(s, n + 1, Len(s))

Includes(s, p) == \E i \in 1..(Len(s) - Len(p) + 1) : SubSeq(s, i, i + Len(p) - 1) = p

WhiteSpace == {" ", "\t", "\r", "\n"}

Trim(s) ==
    IF \A i \in 1..Len(s) : CharAt(s, i) \in WhiteSpace THEN ""
    ELSE LET lo == CHOOSE i \in 1..Len(s) :
                       /\ CharAt(s, i) \notin WhiteSpace
                       /\ \A j \in 1..(i - 1) : CharAt(s, j) \in WhiteSpace
             k  == CHOOSE d \in 0..(Len(s) - 1) :
                       /\ CharAt(s, Len(s) - d) \notin WhiteSpace
                       /\ \A j \in (Len(s) - d + 1)..Len(s) : CharAt(s, j) \in WhiteSpace
         IN  SubSeq(s, lo, Len(s) - k)

\* The least element of a non-empty set of numbers.
Least(S) == CHOOSE i \in S : \A j \in S : i <= j

\* s.split('\n'): always at least one element, the last one the text after
\* the last newline.  at holds the indexes of the newlines of s from `from` on.
RECURSIVE SplitAt(_, _, _)
SplitAt(s, from, at) ==
    IF at = {} THEN <<SubSeq(s, from, Len(s))>>
    ELSE LET nl == Least(at)
         IN  <<SubSeq(s, from, nl - 1)>> \o SplitAt(s, nl + 1, at \ {nl})

Split(s) == SplitAt(s, 1, {i \in 1..Len(s) : CharAt(s, i) = "\n"})

(***************************************************************************)
(* TextDecoder.decode(value, {stream: true}) for UTF-8.  An ASCII byte is  *)
(* its character; the lead byte C3 followed by the continuation byte A9 is *)
(* U+00E9; a lead byte at the end of the input is held back for the next   *)
(* call; a byte that fits nowhere decodes to U+FFFD.                       *)
(***************************************************************************)
LeadByte == "<"
ContByte == ">"
EAcute == "#"
Replacement == "?"

\* at holds the indexes of the non-ASCII bytes from `from` on; the bytes
\* between them are copied as they are.
RECURSIVE Utf8Decode(_, _, _, _)
Utf8Decode(bytes, from, at, out) ==
    IF at = {} THEN [text |-> out \o SubSeq(bytes, from, Len(bytes)), pending |-> ""]
    ELSE LET i     == Least(at)
             ascii == out \o SubSeq(bytes, from, i - 1)
         IN  IF CharAt(bytes, i) = LeadByte
             THEN IF i = Len(bytes) THEN [text |-> ascii, pending |-> LeadByte]
                  ELSE IF CharAt(bytes, i + 1) = ContByte
                       THEN Utf8Decode(bytes, i + 2, at \ {i, i + 1}, ascii \o EAcute)
                       ELSE Utf8Decode(bytes, i + 1, at \ {i}, ascii \o Replacement)
             ELSE Utf8Decode(bytes, i + 1, at \ {i}, ascii \o Replacement)

TextDecode(held, value) ==
    LET bytes == held \o value
    IN  Utf8Decode(bytes, 1,
                   {i \in 1..Len(bytes) : CharAt(bytes, i) = LeadByte
                                          \/ CharAt(bytes, i) = ContByte}, "")

(***************************************************************************)
(* Template-literal formatting of a number: `${response.status}`.          *)
(***************************************************************************)
RECURSIVE NumberToString(_)
NumberToString(n) ==
    IF n < 10 THEN CharAt("0123456789", n + 1)
    ELSE NumberToString(n \div 10) \o CharAt("0123456789", (n % 10) + 1)

(***************************************************************************)
(* JSON values, and JSON.parse on the payloads a chat-completions stream   *)
(* carries.  JSON.parse either returns a value or throws a SyntaxError.    *)
(***************************************************************************)
JUndefined == [t |-> "undefined"]
JNull      == [t |-> "null"]
JString(s) == [t |-> "string", v |-> s]
JArray(es) == [t |-> "array", v |-> es]
JObject(f) == [t |-> "object", v |-> f]

\* The characters that occur as streamed content.
Contents == {"", "a", EAcute}

\* The text of the record {"choices":[{"delta":{"content":c}}]}.
RecordText(c) == "{\"choices\":[{\"delta\":{\"content\":\"" \o c \o "\"}}]}"

RecordValue(c) ==
    JObject([choices |-> JArray(<<JObject([delta |-> JObject([content |-> JString(c)])])>>)])

JSONParse(s) ==
    IF \E c \in Contents : s = RecordText(c)
    THEN [ok |-> TRUE, value |-> RecordValue(CHOOSE c \in Contents : s = RecordText(c))]
    ELSE IF s = "{\"choices\":[{\"delta\":{}}]}"
    THEN [ok |-> TRUE,
          value |-> JObject([choices |-> JArray(<<JObject([delta |-> JObject(<<>>)])>>)])]
    ELSE IF s = "{\"choices\":[]}"
    THEN [ok |-> TRUE, value |-> JObject([choices |-> JArray(<<>>)])]
    ELSE IF s = "{}"
    THEN [ok |-> TRUE, value |-> JObject(<<>>)]
    ELSE IF s = "null"
    THEN [ok |-> TRUE, value |-> JNull]
    ELSE [ok |-> FALSE]

\* v.key
Member(v, key) ==
    IF v.t = "object" /\ key \in DOMAIN v.v THEN v.v[key] ELSE JUndefined

\* v?.key
OptMember(v, key) ==
    IF v.t \in {"undefined", "null"} THEN JUndefined ELSE Member(v, key)

\* v?.[0]
OptFirst(v) ==
    IF v.t = "array" /\ Len(v.v) >= 1 THEN v.v[1] ELSE JUndefined

\* json.choices?.[0]?.delta?.content || ''
\* json.choices itself is a plain member access: it throws a TypeError when
\* json is null.
DeltaContent(json) ==
    IF json.t \in {"undefined", "null"} THEN [ok |-> FALSE]
    ELSE LET content == OptMember(OptMember(OptFirst(Member(json, "choices")), "delta"),
                                  "content")
         IN  [ok |-> TRUE,
              delta |-> IF content.t = "string" THEN content.v ELSE ""]

(***************************************************************************)
(* The stream decoder of callOpenAICompatible.  st is the adapter's local  *)
(* state [pending, buffer, fullText, calls]; cb tells whether onStream was *)
(* passed.                                                                 *)
(***************************************************************************)
\* Mutant: onStream receives the delta instead of the cumulative text.
AppendDeltaPassesDelta(st, delta, cb) ==
    IF delta = "" THEN st
    ELSE [st EXCEPT !.fullText = @ \o delta,
                    !.calls = IF cb THEN Append(@, delta) ELSE @]

\* Mutant: the callback is invoked for an empty delta too.
AppendDeltaUnguarded(st, delta, cb) ==
    [st EXCEPT !.fullText = @ \o delta,
               !.calls = IF cb THEN Append(@, st.fullText \o delta) ELSE @]

\* if (delta) { fullText += delta; if (onStream) onStream(fullText); }
\* The statement stands inside the try block of the line: when onStream
\* throws, fullText has been assigned already, the catch block only logs,
\* and the loop goes on with the next line, as it does when onStream
\* returns.
AppendDelta(st, delta, cb) ==
    IF delta = "" THEN st
    ELSE [st EXCEPT !.fullText = @ \o delta,
                    !.calls = IF cb THEN Append(@, st.fullText \o delta) ELSE @]

\* Mutant: the field name is accepted without the space after the colon.
HandleLineAnyData(st, line, cb) ==
    LET trimmed == Trim(line)
    IN  IF ~StartsWith(trimmed, "data:") THEN st
        ELSE LET dataStr == Trim(Slice(trimmed, 5))
             IN  IF dataStr = "[DONE]" THEN st
                 ELSE LET parsed == JSONParse(dataStr)
                      IN  IF ~parsed.ok THEN st
                          ELSE LET d == DeltaContent(parsed.value)
                               IN  IF ~d.ok THEN st
                                   ELSE AppendDelta(st, d.delta, cb)

\* Mutant: the catch block falls back to the raw payload of a record that
\* does not parse.
HandleLineRawFallback(st, line, cb) ==
    LET trimmed == Trim(line)
    IN  IF ~StartsWith(trimmed, "data: ") THEN st
        ELSE LET dataStr == Slice(trimmed, 6)
             IN  IF dataStr = "[DONE]" THEN st
                 ELSE LET parsed == JSONParse(dataStr)
                      IN  IF ~parsed.ok THEN AppendDelta(st, dataStr, cb)
                          ELSE LET d == DeltaContent(parsed.value)
                               IN  IF ~d.ok THEN st
                                   ELSE AppendDelta(st, d.delta, cb)

\* The body of `for (const line of lines)`.
HandleLine(st, line, cb) ==
    LET trimmed == Trim(line)
    IN  IF ~StartsWith(trimmed, "data: ") THEN st
        ELSE LET dataStr == Slice(trimmed, 6)
             IN  IF dataStr = "[DONE]" THEN st
                 ELSE LET parsed == JSONParse(dataStr)
                      IN  IF ~parsed.ok THEN st
                          ELSE LET d == DeltaContent(parsed.value)
                               IN  IF ~d.ok THEN st
                                   ELSE AppendDelta(st, d.delta, cb)

\* Mutant: the sentinel ends the loop over the lines (break, not continue).
RECURSIVE ForEachLineBreaksAtDone(_, _, _, _)
ForEachLineBreaksAtDone(st, lines, i, cb) ==
    IF i > Len(lines) \/ Trim(lines[i]) = "data: [DONE]" THEN st
    ELSE ForEachLineBreaksAtDone(HandleLine(st, lines[i], cb), lines, i + 1, cb)

RECURSIVE ForEachLine(_, _, _, _)
ForEachLine(st, lines, i, cb) ==
    IF i > Len(lines) THEN st
    ELSE ForEachLine(HandleLine(st, lines[i], cb), lines, i + 1, cb)

\* Mutant: the incomplete last line is not kept for the next chunk.
CarryOverDropped(lines) == ""

\* buffer = lines.pop() || ''
CarryOver(lines) == lines[Len(lines)]

\* Mutant: the loop queues the callbacks for later instead of invoking
\* them, and goes on to the next read.
ReadChunkDefersCalls(st, value, cb) ==
    LET decoded == TextDecode(st.pending, value)
        lines   == Split(st.buffer \o decoded.text)
        kept    == [st EXCEPT !.pending = decoded.pending, !.buffer = CarryOver(lines)]
    IN  ForEachLine(kept, SubSeq(lines, 1, Len(lines) - 1), 1, FALSE)

\* One pass of the read loop on the chunk `value` that reader.read() returned.
ReadChunk(st, value, cb) ==
    LET decoded == TextDecode(st.pending, value)
        lines   == Split(st.buffer \o decoded.text)
        kept    == [st EXCEPT !.pending = decoded.pending, !.buffer = CarryOver(lines)]
    IN  ForEachLine(kept, SubSeq(lines, 1, Len(lines) - 1), 1, cb)

\* The adapter's locals after `let fullText = ''; let buffer = '';`.
FreshReader == [pending |-> "", buffer |-> "", fullText |-> "", calls |-> <<>>]

\* Mutant: fullText is declared outside the adapter functions, so that a
\* call continues the text of the call that runs beside it.
LocalsShared(own, other) == [own EXCEPT !.fullText = other.fullText]

\* The locals a call's loop works on: `let fullText` and `let buffer` are
\* declared inside the adapter function, so every call has its own, whatever
\* the locals `other` of a call running beside it.
Locals(own, other) == own

\* A second call that has not been made.
Idle == [pc |-> "idle", body |-> "", wire |-> "", pending |-> "", buffer |-> "",
         fullText |-> "", calls |-> <<>>, result |-> ""]

(***************************************************************************)
(* The messages of the errors the core creates.                            *)
(***************************************************************************)
MissingKeyMessage == "API Key is missing. Please set it in Settings."

\* The source's text is Chinese; this is its translation.
TooLargeMessage ==
    "File too large for the API's direct processing limit. Split the file or extract its text before uploading."

NoBodyMessage == "No response body"

\* Mutant: the message leaves the text of the response body out.
ProviderErrorMessageNoBody(code, err) ==
    "Provider Error (" \o NumberToString(code) \o ")"

\* Mutant: the message leaves the status code out.
ProviderErrorMessageNoStatus(code, err) == "Provider Error: " \o err

ProviderErrorMessage(code, err) ==
    "Provider Error (" \o NumberToString(code) \o "): " \o err

\* The catch block of generateCaseAnalysis: the message of the error it throws
\* for an adapter error with message msg.
Rethrown(msg) == IF Includes(msg, "413") THEN TooLargeMessage ELSE msg


(***************************************************************************)
(* Base64.  A binary string has one character per byte: the character of   *)
(* code 195 is written "<", that of code 169 ">", that of code 233 "#"     *)
(* (the module's notation), so the texts below do not use the ASCII        *)
(* characters of these shapes.                                             *)
(***************************************************************************)
\* The characters of code 32 to 95 and of code 97 to 126, in order (the
\* character of code 96 cannot be written in a string of this notation).
AsciiTo95 == " !\"#$%&'()*+,-./0123456789:;<=>?@ABCDEFGHIJKLMNOPQRSTUVWXYZ[\\]^_"

AsciiFrom97 == "abcdefghijklmnopqrstuvwxyz{|}~"

IndexOf(s, c) == CHOOSE i \in 1..Len(s) : CharAt(s, i) = c

\* c.charCodeAt(0)
CharCodeAt(c) ==
    IF c = LeadByte THEN 195
    ELSE IF c = ContByte THEN 169
    ELSE IF c = EAcute THEN 233
    ELSE IF c = "\n" THEN 10
    ELSE IF Includes(AsciiTo95, c) THEN 31 + IndexOf(AsciiTo95, c)
    ELSE 96 + IndexOf(AsciiFrom97, c)

\* String.fromCharCode(code)
FromCharCode(code) ==
    IF code = 195 THEN LeadByte
    ELSE IF code = 169 THEN ContByte
    ELSE IF code = 233 THEN EAcute
    ELSE IF code = 10 THEN "\n"
    ELSE IF code <= 95 THEN CharAt(AsciiTo95, code - 31)
    ELSE CharAt(AsciiFrom97, code - 96)

Base64Alphabet == "ABCDEFGHIJKLMNOPQRSTUVWXYZabcdefghijklmnopqrstuvwxyz0123456789+/"

Base64Chars == {CharAt(Base64Alphabet, i) : i \in 1..64}

Base64Char(v) == CharAt(Base64Alphabet, v + 1)

Base64Value(c) == IndexOf(Base64Alphabet, c) - 1

\* btoa(s) of a binary string s, from its byte i on: three bytes give four
\* characters, a last group of one or two bytes is padded with "=".
RECURSIVE BtoaFrom(_, _)
BtoaFrom(s, i) ==
    LET n  == Len(s) - i + 1
        b1 == CharCodeAt(CharAt(s, i))
        b2 == IF n >= 2 THEN CharCodeAt(CharAt(s, i + 1)) ELSE 0
        b3 == IF n >= 3 THEN CharCodeAt(CharAt(s, i + 2)) ELSE 0
        w  == b1 * 65536 + b2 * 256 + b3
    IN  IF n <= 0 THEN ""
        ELSE Base64Char(w \div 262144) \o Base64Char((w \div 4096) % 64)
             \o (IF n >= 2 THEN Base64Char((w \div 64) % 64) ELSE "=")
             \o (IF n >= 3 THEN Base64Char(w % 64) \o BtoaFrom(s, i + 3) ELSE "=")

Btoa(s) == BtoaFrom(s, 1)

\* s without its ASCII whitespace.
RECURSIVE StripWhiteSpace(_)
StripWhiteSpace(s) ==
    IF s = "" THEN ""
    ELSE (IF CharAt(s, 1) \in WhiteSpace \cup {"\f"} THEN "" ELSE CharAt(s, 1))
         \o StripWhiteSpace(Slice(s, 1))

\* The bytes of the base64 characters of s from character i on: four
\* characters give three bytes, a last group of three gives two bytes and
\* one of two gives one byte.
RECURSIVE AtobFrom(_, _)
AtobFrom(s, i) ==
    LET n  == Len(s) - i + 1
        v1 == Base64Value(CharAt(s, i))
        v2 == Base64Value(CharAt(s, i + 1))
        v3 == IF n >= 3 THEN Base64Value(CharAt(s, i + 2)) ELSE 0
        v4 == IF n >= 4 THEN Base64Value(CharAt(s, i + 3)) ELSE 0
        w  == v1 * 262144 + v2 * 4096 + v3 * 64 + v4
    IN  IF n <= 0 THEN ""
        ELSE FromCharCode(w \div 65536)
             \o (IF n >= 3 THEN FromCharCode((w \div 256) % 256) ELSE "")
             \o (IF n >= 4 THEN FromCharCode(w % 256) \o AtobFrom(s, i + 4) ELSE "")

\* atob(data): [ok |-> FALSE] when it throws InvalidCharacterError.
Atob(data) ==
    LET stripped == StripWhiteSpace(data)
        len      == Len(stripped)
        unpadded == IF len > 0 /\ len % 4 = 0 /\ CharAt(stripped, len) = "="
                    THEN IF CharAt(stripped, len - 1) = "="
                         THEN SubSeq(stripped, 1, len - 2)
                         ELSE SubSeq(stripped, 1, len - 1)
                    ELSE stripped
    IN  IF Len(unpadded) % 4 = 1
           \/ \E i \in 1..Len(unpadded) : CharAt(unpadded, i) \notin Base64Chars
        THEN [ok |-> FALSE]
        ELSE [ok |-> TRUE, text |-> AtobFrom(unpadded, 1)]

(***************************************************************************)
(* The request bodies the adapters build from the prompt and the files.    *)
(* An AttachedFile is a record [name, type, data]; its size is never read. *)
(***************************************************************************)
\* parts.push({ inlineData: { mimeType: file.type, data: file.data } })
InlineDataPart(file) == [inlineData |-> [mimeType |-> file.type, data |-> file.data]]

\* Mutant: the prompt comes first.
PartsPromptFirst(p, fs) ==
    <<[text |-> p]>> \o [i \in 1..Len(fs) |-> InlineDataPart(fs[i])]

\* callGoogleGemini: const parts
Parts(p, fs) ==
    [i \in 1..Len(fs) |-> InlineDataPart(fs[i])] \o <<[text |-> p]>>

\* Mutant: only PNG pictures are sent as pictures.
IsImagePngOnly(file) == file.type = "image/png"

\* file.type.startsWith('image/')
IsImage(file) == StartsWith(file.type, "image/")

\* file.type === 'text/plain' || file.type === 'text/markdown' ||
\* file.type === 'application/json'
IsText(file) == file.type \in {"text/plain", "text/markdown", "application/json"}

ImagePart(file) ==
    [type |-> "image_url",
     image_url |-> [url |-> "data:" \o file.type \o ";base64," \o file.data]]

FileStart(name) == "\n\n--- FILE START: " \o name \o " ---\n"

FileEnd == "\n--- FILE END ---\n"

\* Mutant: the payload is embedded as it is, not decoded.
TextFilePartsRaw(file) ==
    <<[type |-> "text", text |-> FileStart(file.name) \o file.data \o FileEnd]>>

\* The try block of the text branch: the parts pushed for the file, none
\* when atob throws and the catch block only logs.
TextFileParts(file) ==
    LET decodedText == Atob(file.data)
    IN  IF decodedText.ok
        THEN <<[type |-> "text",
                text |-> FileStart(file.name) \o decodedText.text \o FileEnd]>>
        ELSE <<>>

\* Mutant: the note carries the payload after the file's name.
DisclosurePartWithPayload(file) ==
    [type |-> "text",
     text |-> "\n[System note: file " \o file.name \o " (" \o file.type
              \o ") was uploaded: " \o file.data \o "]"]

\* The source's note is Chinese; this is its translation.
DisclosurePart(file) ==
    [type |-> "text",
     text |-> "\n[System note: file " \o file.name \o " (" \o file.type
              \o ") was uploaded, but the OpenAI-compatible mode in use may not parse this format natively (unless it is an image or plain text). If the model cannot read the file, try the Google Gemini mode or convert the file to plain text.]"]

\* The body of `for (const file of files)`: the parts pushed for one file.
FileParts(file) ==
    IF IsImage(file) THEN <<ImagePart(file)>>
    ELSE IF IsText(file) THEN TextFileParts(file)
    ELSE <<DisclosurePart(file)>>

\* The parts pushed for the files fs from the i-th on.
RECURSIVE PartsFrom(_, _)
PartsFrom(fs, i) ==
    IF i > Len(fs) THEN <<>> ELSE FileParts(fs[i]) \o PartsFrom(fs, i + 1)

(***************************************************************************)
(* The inputs: settings, responses, failures.                              *)
(***************************************************************************)
Providers == {"google", "openrouter", "local"}

ApiKeys == {"", "sk-key"}

\* settings.baseUrl as typed in the settings form: absent, without a
\* trailing slash, with one, with two.
BaseUrls == {"", "https://llm.example/v1", "https://llm.example/v1/",
             "https://llm.example/v1//"}

Instructions == {"", "You are a case auditor."}

\* settings.model as typed in the settings form: empty, the 2.5 series
\* with and without a path prefix, other series.
Models == {"", "gemini-2.5-flash", "models/gemini-2.5-pro", "gemini-3-pro-preview",
           "gemini-2.0-flash"}

\* window.location.origin
Origin == "https://audit.example"

Prompts == {"", "Find the contradictions."}

\* The invocation at which the caller's callback throws: none, or one of
\* the first ones.
ThrowsAt == 0..MaxChunks

\* The message of the error the callback throws.
CallbackMessage == "Cannot update an unmounted view"

\* Files as handleFileUpload builds them: the payload is the base64 of the
\* file's bytes; a .docx arrives as text/plain with the base64 of the UTF-8
\* bytes of its text.  Truncated is a payload cut short, which atob rejects.
Png       == [name |-> "scan.png", type |-> "image/png", data |-> Btoa("PNG")]
Webp      == [name |-> "photo.webp", type |-> "image/webp", data |-> Btoa("RIFF")]
Txt       == [name |-> "note.txt", type |-> "text/plain", data |-> Btoa("Hello")]
Docx      == [name |-> "minutes.docx", type |-> "text/plain", data |-> Btoa("<>")]
Truncated == [name |-> "cut.json", type |-> "application/json", data |-> "eyJhIjoxf"]
Markdown  == [name |-> "readme.md", type |-> "text/markdown", data |-> Btoa("Hi\n")]
Pdf       == [name |-> "case.pdf", type |-> "application/pdf", data |-> Btoa("%PDF")]
Csv       == [name |-> "table.csv", type |-> "text/csv", data |-> Btoa("a,b")]

Attachments == {Png, Webp, Txt, Docx, Truncated, Markdown, Pdf, Csv}

\* Every list of at most n of the files F.
RECURSIVE FileLists(_, _)
FileLists(F, n) ==
    IF n = 0 THEN {<<>>}
    ELSE {<<>>} \cup {Append(fs, f) : fs \in FileLists(F, n - 1), f \in F}

\* Lines a chat-completions event stream carries.
DataA    == "data: " \o RecordText("a")
DataE    == "data: {\"choices\":[{\"delta\":{\"content\":\"<>\"}}]}"
DataCR   == DataA \o "\r"
NoDelta  == "data: {\"choices\":[{\"delta\":{}}]}"
DoneLine == "data: [DONE]"
Comment  == ": ping"
BadLine  == "data: {\"choices\":[{\"delta\""
Indented == " " \o DataA
NoSpace  == "data:" \o RecordText("a")
EmptyDelta == "data: " \o RecordText("")

\* The sub-sequences of at most n lines of the transcript t from line i on.
RECURSIVE SubTranscripts(_, _, _)
SubTranscripts(t, i, n) ==
    IF i > Len(t) \/ n = 0 THEN {<<>>}
    ELSE SubTranscripts(t, i + 1, n)
         \cup {<<t[i]>> \o r : r \in SubTranscripts(t, i + 1, n - 1)}

\* The bytes of the lines ls, each ended by "\n", the last one only when
\* `ended`.
RECURSIVE Join(_, _)
Join(ls, ended) ==
    IF ls = <<>> THEN ""
    ELSE IF Len(ls) = 1 THEN ls[1] \o (IF ended THEN "\n" ELSE "")
    ELSE ls[1] \o "\n" \o Join(Tail(ls), ended)

\* The response bodies: at most n lines of the transcript t, in its order.
Bodies(t, n) == {Join(ls, ended) : ls \in SubTranscripts(t, 1, n), ended \in BOOLEAN}

\* Every list of at most n chunk texts of T.
RECURSIVE ChunkLists(_, _)
ChunkLists(T, n) ==
    IF n = 0 THEN {<<>>}
    ELSE {<<>>} \cup {Append(cs, t) : cs \in ChunkLists(T, n - 1), t \in T}

\* chunk.text of the SDK's chunks; "" stands for an empty or absent text.
ChunkTexts == {"", "a", "ab"}

Statuses == {200, 413, 500}

ErrorTexts == {"", "Payload Too Large", "quota exceeded (request 4130)"}

\* Messages of the errors fetch, reader.read() and the SDK throw.
TransportMessages == {"Failed to fetch", "timed out after 4130 ms"}

\* The settings as one object.
Settings ==
    [provider |-> provider, apiKey |-> apiKey, baseUrl |-> baseUrl, model |-> model,
     systemInstruction |-> systemInstruction]

\* The application after its first render: no message, no stored session,
\* the form's copy equal to the settings.
Mounted ==
    /\ analysisStatus = "IDLE"
    /\ messages = <<>>
    /\ input = ""
    /\ stagedFiles = <<>>
    /\ isSettingsOpen = FALSE
    /\ sessions = <<>>
    /\ currentSessionId = 0
    /\ localSettings = Settings
    /\ analyses = <<>>
    /\ now = 1

(***************************************************************************)
(* The state after the caller has built its arguments.                     *)
(***************************************************************************)
Start ==
    /\ provider \in Providers
    /\ apiKey \in ApiKeys
    /\ baseUrl \in BaseUrls
    /\ systemInstruction \in Instructions
    /\ model \in Models
    /\ hasOnStream \in BOOLEAN
    /\ onStreamThrowsAt \in ThrowsAt
    /\ prompt \in Prompts
    /\ files \in FileLists(Attachments, MaxFiles)
    /\ pc = "start"
    /\ requests = <<>>
    /\ status = 0
    /\ errText = ""
    /\ body = ""
    /\ wire = ""
    /\ pending = ""
    /\ buffer = ""
    /\ chunks = <<>>
    /\ consumed = 0
    /\ fullText = ""
    /\ calls = <<>>
    /\ result = ""
    /\ thrown = ""
    /\ error = ""
    /\ peer = Idle
    /\ Mounted

\* A call whose callback returns normally.
Returns == onStreamThrowsAt = 0

\* A call with a prompt and no attachment, with the default endpoint and a
\* system instruction.
Init ==
    /\ Start
    /\ Returns
    /\ baseUrl = ""
    /\ systemInstruction # ""
    /\ model = ""
    /\ prompt # ""
    /\ files = <<>>

\* Mutants of the credential check: one that lets the hosted aggregator
\* through without a key, one that forgets the exception for 'local'.
MissingCredentialGoogleOnly(key, prov) == key = "" /\ prov = "google"

MissingCredentialAnyProvider(key, prov) == key = ""

\* if (!settings.apiKey && settings.provider !== 'local')
MissingCredential(key, prov) == key = "" /\ prov # "local"

\* Mutant: the prompt is pushed after the files.
UserContentPromptLast(p, fs) == PartsFrom(fs, 1) \o <<[type |-> "text", text |-> p]>>

\* callOpenAICompatible: const userContent
UserContent(p, fs) == <<[type |-> "text", text |-> p]>> \o PartsFrom(fs, 1)

\* settings.provider === 'openrouter' ? ... : ...
DefaultBaseUrl(prov) ==
    IF prov = "openrouter" THEN "https://openrouter.ai/api/v1"
    ELSE "http://localhost:11434/v1"

\* s.replace(/\/$/, ''): the slash at the end of s, if there is one, is
\* removed.
StripTrailingSlash(s) ==
    IF s # "" /\ CharAt(s, Len(s)) = "/" THEN SubSeq(s, 1, Len(s) - 1) ELSE s

\* Mutant: the base URL is used as it is.
UrlUnstripped(base, prov) ==
    (IF base # "" THEN base ELSE DefaultBaseUrl(prov)) \o "/chat/completions"

\* const url
Url(base, prov) ==
    StripTrailingSlash(IF base # "" THEN base ELSE DefaultBaseUrl(prov))
        \o "/chat/completions"

\* Mutant: the identification headers are sent to every endpoint.
HeadersAlwaysIdentified(key, prov) ==
    ("Content-Type" :> "application/json") @@ ("Authorization" :> ("Bearer " \o key))
        @@ ("HTTP-Referer" :> Origin) @@ ("X-Title" :> "AuditAI")

\* const headers
Headers(key, prov) ==
    LET headers == ("Content-Type" :> "application/json")
                       @@ ("Authorization" :> ("Bearer " \o key))
    IN  IF prov = "openrouter"
        THEN headers @@ ("HTTP-Referer" :> Origin) @@ ("X-Title" :> "AuditAI")
        ELSE headers

\* Mutant: the system message is pushed whether or not an instruction is
\* set.
MessagesAlwaysSystem(sys, content) ==
    <<[role |-> "system", content |-> sys], [role |-> "user", content |-> content]>>

\* const messages
Messages(sys, content) ==
    (IF sys # "" THEN <<[role |-> "system", content |-> sys]>> ELSE <<>>)
        \o <<[role |-> "user", content |-> content]>>

\* const modelId = settings.model || 'gemini-3-pro-preview'
DefaultModelId == "gemini-3-pro-preview"

ModelId(m) == IF m = "" THEN DefaultModelId ELSE m

\* The fallback model of the HTTP adapter.
DefaultHttpModel == "qwen2.5:14b"

HttpModel(m) == IF m = "" THEN DefaultHttpModel ELSE m

\* maxOutputTokens of the native request, max_tokens of the HTTP one.
MaxOutputTokens == 8192

MaxTokens == 8192

\* Mutant: the thinking budget is left out only for identifiers that
\* start with the series name.
ThinkingConfigByPrefix(modelId) ==
    IF StartsWith(modelId, "gemini-2.5") THEN JUndefined ELSE [thinkingBudget |-> 0]

\* thinkingConfig: modelId.includes('gemini-2.5') ? undefined : { thinkingBudget: 0 }
ThinkingConfig(modelId) ==
    IF Includes(modelId, "gemini-2.5") THEN JUndefined ELSE [thinkingBudget |-> 0]

\* Mutant: the hosted aggregator is sent to the SDK too.
UsesGoogleSdkUnlessLocal(prov) == prov # "local"

\* if (settings.provider === 'google') callGoogleGemini else
\* callOpenAICompatible
UsesGoogleSdk(prov) == prov = "google"

\* 'Authorization': `Bearer ${settings.apiKey}`
Authorization(key) == "Bearer " \o key

\* Mutant: the catch block starts the call again.
RejectsAndRetries(msg) ==
    /\ pc' = "start"
    /\ thrown' = msg
    /\ error' = ""

\* Mutant: the catch block swallows the error and the call resolves.
RejectsSwallowed(msg) ==
    /\ pc' = "resolved"
    /\ thrown' = msg
    /\ error' = ""

\* The promise rejects with the error the catch block throws for an adapter
\* error with message msg.
Rejects(msg) ==
    /\ pc' = "rejected"
    /\ thrown' = msg
    /\ error' = Rethrown(msg)

\* The argument of generateContentStream.
SdkRequest(key, m, p, fs) ==
    [kind |-> "generateContentStream",
     apiKey |-> key,
     model |-> ModelId(m),
     maxOutputTokens |-> MaxOutputTokens,
     thinkingConfig |-> ThinkingConfig(ModelId(m)),
     parts |-> Parts(p, fs)]

\* The arguments of fetch.
FetchRequest(base, prov, key, m, sys, p, fs) ==
    [kind |-> "fetch",
     url |-> Url(base, prov),
     model |-> HttpModel(m),
     max_tokens |-> MaxTokens,
     headers |-> Headers(key, prov),
     Authorization |-> Authorization(key),
     userContent |-> UserContent(p, fs),
     messages |-> Messages(sys, UserContent(p, fs))]

\* Mutant: the adapter takes the files off the caller's list as it builds
\* the parts (files.shift()).
ArgumentsConsumed ==
    /\ files' = <<>>
    /\ UNCHANGED <<provider, apiKey, baseUrl, systemInstruction, model, hasOnStream,
                   onStreamThrowsAt, prompt>>

\* The adapters build parts, messages and headers as new objects out of
\* values read from files and settings, and assign to neither.
ArgumentsRead == UNCHANGED inputs

(***************************************************************************)
(* generateCaseAnalysis up to the adapter's first await: the credential    *)
(* check, the routing, and the adapter's outbound request.                 *)
(***************************************************************************)
GenerateCaseAnalysis ==
    /\ pc = "start"
    /\ IF MissingCredential(apiKey, provider)
       THEN /\ pc' = "rejected"
            /\ error' = MissingKeyMessage
            /\ UNCHANGED requests
       ELSE IF UsesGoogleSdk(provider)
       THEN /\ pc' = "sdk"
            /\ requests' = Append(requests, SdkRequest(apiKey, model, prompt, files))
            /\ UNCHANGED error
       ELSE /\ pc' = "fetch"
            /\ requests' = Append(requests,
                                  FetchRequest(baseUrl, provider, apiKey, model,
                                               systemInstruction, prompt, files))
            /\ UNCHANGED error
    /\ ArgumentsRead
    /\ UNCHANGED <<ui, peer, status, errText, body, wire, pending,
                   buffer, chunks, consumed, fullText, calls, result, thrown>>

(***************************************************************************)
(* callOpenAICompatible.                                                   *)
(***************************************************************************)
\* fetch rejects: no response.
FetchFails ==
    /\ pc = "fetch"
    /\ \E msg \in TransportMessages : Rejects(msg)
    /\ UNCHANGED <<inputs, ui, peer, requests, status, errText, body, wire,
                   pending, buffer, chunks, consumed, fullText, calls, result>>

\* Mutant: an ok response without a body is taken for an empty stream and
\* the call resolves with the empty text.
FetchRespondsNoBodyResolves(streams) ==
    /\ pc = "fetch"
    /\ \E st \in Statuses :
         /\ status' = st
         /\ IF ~(st >= 200 /\ st <= 299)
            THEN \E err \in ErrorTexts :
                   /\ errText' = err
                   /\ Rejects(ProviderErrorMessage(st, err))
                   /\ UNCHANGED <<body, wire>>
            ELSE \/ /\ pc' = "resolved"
                    /\ UNCHANGED <<errText, body, wire, thrown, error>>
                 \/ \E bytes \in streams :
                      /\ body' = bytes
                      /\ wire' = bytes
                      /\ pc' = "read"
                      /\ UNCHANGED <<errText, thrown, error>>
    /\ UNCHANGED <<inputs, ui, peer, requests, pending, buffer, chunks,
                   consumed, fullText, calls, result>>

\* fetch resolves with a response of some status; streams are the bodies an
\* ok response may carry.  An ok response may also have no body.
FetchResponds(streams) ==
    /\ pc = "fetch"
    /\ \E st \in Statuses :
         /\ status' = st
         /\ IF ~(st >= 200 /\ st <= 299)
            THEN \E err \in ErrorTexts :
                   /\ errText' = err
                   /\ Rejects(ProviderErrorMessage(st, err))
                   /\ UNCHANGED <<body, wire>>
            ELSE \/ /\ Rejects(NoBodyMessage)
                    /\ UNCHANGED <<errText, body, wire>>
                 \/ \E bytes \in streams :
                      /\ body' = bytes
                      /\ wire' = bytes
                      /\ pc' = "read"
                      /\ UNCHANGED <<errText, thrown, error>>
    /\ UNCHANGED <<inputs, ui, peer, requests, pending, buffer, chunks,
                   consumed, fullText, calls, result>>

\* reader.read() resolves with a chunk of n bytes, and the loop body runs.
Read ==
    /\ pc = "read"
    /\ \E n \in 1..Len(wire) :
         \E st \in {ReadChunk(Locals([pending |-> pending, buffer |-> buffer,
                                      fullText |-> fullText, calls |-> calls], peer),
                              SubSeq(wire, 1, n), hasOnStream)} :
             /\ wire' = SubSeq(wire, n + 1, Len(wire))
             /\ pending' = st.pending
             /\ buffer' = st.buffer
             /\ fullText' = st.fullText
             /\ calls' = st.calls
    /\ UNCHANGED <<inputs, ui, peer, pc, requests, status, errText, body,
                   chunks, consumed, result, thrown, error>>

\* Mutant: at the end of the stream the text left in buffer is handled as a
\* last line.
ReadDoneFlushes ==
    /\ pc = "read"
    /\ wire = ""
    /\ pc' = "resolved"
    /\ \E st \in {HandleLine([pending |-> pending, buffer |-> buffer,
                               fullText |-> fullText, calls |-> calls],
                              buffer, hasOnStream)} :
           /\ result' = st.fullText
           /\ fullText' = st.fullText
           /\ calls' = st.calls
    /\ UNCHANGED <<inputs, ui, peer, requests, status, errText, body, wire,
                   pending, buffer, chunks, consumed, thrown, error>>

\* reader.read() resolves with done: the adapter returns fullText.
ReadDone ==
    /\ pc = "read"
    /\ wire = ""
    /\ pc' = "resolved"
    /\ result' = fullText
    /\ UNCHANGED <<inputs, ui, peer, requests, status, errText, body, wire,
                   pending, buffer, chunks, consumed, fullText, calls, thrown, error>>

\* reader.read() rejects: the connection broke before the body ended.
ReadFails ==
    /\ pc = "read"
    /\ \E msg \in TransportMessages : Rejects(msg)
    /\ UNCHANGED <<inputs, ui, peer, requests, status, errText, body, wire,
                   pending, buffer, chunks, consumed, fullText, calls, result>>


(***************************************************************************)
(* callGoogleGemini.                                                       *)
(***************************************************************************)
\* generateContentStream rejects.
SdkFails ==
    /\ pc = "sdk"
    /\ \E msg \in TransportMessages : Rejects(msg)
    /\ UNCHANGED <<inputs, ui, peer, requests, status, errText, body, wire,
                   pending, buffer, chunks, consumed, fullText, calls, result>>

\* generateContentStream resolves with the iterator of the response chunks.
SdkStreams ==
    /\ pc = "sdk"
    /\ chunks' \in ChunkLists(ChunkTexts, MaxChunks)
    /\ pc' = "iterate"
    /\ UNCHANGED <<inputs, ui, peer, requests, status, errText, body, wire,
                   pending, buffer, consumed, fullText, calls, result, thrown, error>>

\* Mutant: the callback is invoked for the first chunk with text only.
OnChunkCallsOnce(st, text, cb) ==
    IF text = "" THEN st
    ELSE [st EXCEPT !.fullText = @ \o text,
                    !.calls = IF cb /\ st.calls = <<>>
                              THEN Append(@, st.fullText \o text) ELSE @]

\* Mutant: the callback is invoked for a chunk without text too.
OnChunkUnguarded(st, text, cb) ==
    [st EXCEPT !.fullText = @ \o text,
               !.calls = IF cb THEN Append(@, st.fullText \o text) ELSE @]

\* Mutant: the chunk's text replaces the running total (a provider that
\* sends cumulative text).
OnChunkCumulative(st, text, cb) ==
    IF text = "" THEN st
    ELSE [st EXCEPT !.fullText = text,
                    !.calls = IF cb THEN Append(@, text) ELSE @]

\* The body of `for await (const chunk of result)` on a chunk with this text.
OnChunk(st, text, cb) ==
    IF text = "" THEN st
    ELSE [st EXCEPT !.fullText = @ \o text,
                    !.calls = IF cb THEN Append(@, st.fullText \o text) ELSE @]

\* Whether the loop body that took the calls from `before` to `after`
\* invoked onStream at an invocation at which it throws.
OnStreamThrew(before, after) ==
    \E k \in (Len(before) + 1)..Len(after) : k = onStreamThrowsAt

\* Mutant: the loop body of the native adapter stands in a try block whose
\* catch only logs, as the one of the HTTP adapter does.
NextChunkCatches ==
    /\ pc = "iterate"
    /\ consumed < Len(chunks)
    /\ \E st \in {OnChunk(Locals([fullText |-> fullText, calls |-> calls], peer),
                            chunks[consumed + 1], hasOnStream)} :
           /\ fullText' = st.fullText
           /\ calls' = st.calls
    /\ consumed' = consumed + 1
    /\ UNCHANGED <<inputs, ui, peer, pc, requests, status, errText, body,
                   wire, pending, buffer, chunks, result, thrown, error>>

\* The iterator yields its next chunk.  No try block stands around the loop
\* inside the adapter: an error thrown by onStream leaves the loop and the
\* adapter, and the catch block of generateCaseAnalysis throws it on.
NextChunk ==
    /\ pc = "iterate"
    /\ consumed < Len(chunks)
    /\ \E st \in {OnChunk(Locals([fullText |-> fullText, calls |-> calls], peer),
                            chunks[consumed + 1], hasOnStream)} :
           /\ fullText' = st.fullText
           /\ calls' = st.calls
           /\ IF OnStreamThrew(calls, st.calls)
              THEN Rejects(CallbackMessage)
              ELSE UNCHANGED <<pc, thrown, error>>
    /\ consumed' = consumed + 1
    /\ UNCHANGED <<inputs, ui, peer, requests, status, errText, body,
                   wire, pending, buffer, chunks, result>>

\* The iterator ends: the adapter returns fullText.
IterationDone ==
    /\ pc = "iterate"
    /\ consumed = Len(chunks)
    /\ pc' = "resolved"
    /\ result' = fullText
    /\ UNCHANGED <<inputs, ui, peer, requests, status, errText, body, wire,
                   pending, buffer, chunks, consumed, fullText, calls, thrown, error>>

\* The iterator throws before it ends.
IterationFails ==
    /\ pc = "iterate"
    /\ \E msg \in TransportMessages : Rejects(msg)
    /\ UNCHANGED <<inputs, ui, peer, requests, status, errText, body, wire,
                   pending, buffer, chunks, consumed, fullText, calls, result>>

(***************************************************************************)
(* A second call to generateCaseAnalysis, made while the first one is in   *)
(* flight: a call with a stream callback to a local endpoint that answers  *)
(* with a body.  peer holds its locals.                                    *)
(***************************************************************************)
\* The state of the first call.
call == <<pc, requests, status, errText, body, wire, pending, buffer, chunks, consumed,
          fullText, calls, result, thrown, error>>

\* The second call is made: it passes the credential check and issues its
\* fetch.
PeerCall ==
    /\ peer.pc = "idle"
    /\ pc # "start"
    /\ peer' = [peer EXCEPT !.pc = "fetch"]
    /\ UNCHANGED <<inputs, ui, call>>

\* The second call's fetch resolves with an ok response and a body.
PeerResponds(streams) ==
    /\ peer.pc = "fetch"
    /\ \E bytes \in streams :
           peer' = [peer EXCEPT !.pc = "read", !.body = bytes, !.wire = bytes]
    /\ UNCHANGED <<inputs, ui, call>>

\* The second call's reader returns a chunk of n bytes.
PeerRead ==
    /\ peer.pc = "read"
    /\ \E n \in 1..Len(peer.wire) :
         \E st \in {ReadChunk(Locals([pending |-> peer.pending, buffer |-> peer.buffer,
                                      fullText |-> peer.fullText, calls |-> peer.calls],
                                     [fullText |-> fullText]),
                              SubSeq(peer.wire, 1, n), TRUE)} :
             peer' = [peer EXCEPT !.wire = SubSeq(peer.wire, n + 1, Len(peer.wire)),
                                  !.pending = st.pending,
                                  !.buffer = st.buffer,
                                  !.fullText = st.fullText,
                                  !.calls = st.calls]
    /\ UNCHANGED <<inputs, ui, call>>

\* The second call's reader reports the end of its stream.
PeerReadDone ==
    /\ peer.pc = "read"
    /\ peer.wire = ""
    /\ peer' = [peer EXCEPT !.pc = "resolved", !.result = peer.fullText]
    /\ UNCHANGED <<inputs, ui, call>>

(***************************************************************************)
(* The application (App) around the calls: the conversation on display,    *)
(* the stored sessions, the attachments, the settings form.  A call that   *)
(* handleSubmit makes is followed through its promise: the values it       *)
(* passes to the callback and the way it settles.  Timestamps are left     *)
(* out; identifiers (Date.now().toString()) are written as numbers.        *)
(***************************************************************************)
\* The part of the state that belongs to the call followed step by step.
traced == <<hasOnStream, onStreamThrowsAt, prompt, files, pc, status, errText, body,
            wire, pending, buffer, chunks, consumed, fullText, calls, result, thrown,
            error, peer>>

\* No call is followed step by step.
Untraced ==
    /\ hasOnStream = TRUE
    /\ Returns
    /\ prompt = ""
    /\ files = <<>>
    /\ pc = "idle"
    /\ requests = <<>>
    /\ status = 0
    /\ errText = ""
    /\ body = ""
    /\ wire = ""
    /\ pending = ""
    /\ buffer = ""
    /\ chunks = <<>>
    /\ consumed = 0
    /\ fullText = ""
    /\ calls = <<>>
    /\ result = ""
    /\ thrown = ""
    /\ error = ""
    /\ peer = Idle

\* The calls handleSubmit may make in one behaviour.
MaxSubmits == 2

DocxType == "application/vnd.openxmlformats-officedocument.wordprocessingml.document"

\* isValidFileType
ValidTypes ==
    {"application/pdf", "text/plain", "text/markdown", "application/json",
     "image/jpeg", "image/png", "image/webp", DocxType}

IsValidFileType(file) == file.type \in ValidTypes

\* unescape(encodeURIComponent(text)): the UTF-8 bytes of text, one
\* character per byte.
RECURSIVE UnescapeEncodeURIComponent(_)
UnescapeEncodeURIComponent(text) ==
    IF text = "" THEN ""
    ELSE (IF CharAt(text, 1) = EAcute THEN LeadByte \o ContByte ELSE CharAt(text, 1))
         \o UnescapeEncodeURIComponent(Slice(text, 1))

\* The attached file made of the text extracted from a .docx.
DocxAttachment(file) ==
    [name |-> file.name,
     type |-> "text/plain",
     data |-> Btoa(UnescapeEncodeURIComponent(file.content))]

\* fileToBase64: what follows the comma of the file's data URL.
FileToBase64(file) == Btoa(file.content)

FileAttachment(file) ==
    [name |-> file.name, type |-> file.type, data |-> FileToBase64(file)]

\* The files pushed to newFiles for the picked files from the i-th on.  A
\* file of a type that is not supported is skipped with an alert, and so is
\* one that cannot be read or parsed.
RECURSIVE NewFiles(_, _)
NewFiles(picked, i) ==
    IF i > Len(picked) THEN <<>>
    ELSE LET file == picked[i]
             rest == NewFiles(picked, i + 1)
         IN  IF ~IsValidFileType(file) THEN rest
             ELSE IF ~file.readable THEN rest
             ELSE IF file.type = DocxType THEN <<DocxAttachment(file)>> \o rest
             ELSE <<FileAttachment(file)>> \o rest

\* The files of the user's disk: content is the text of a .docx (what
\* mammoth extracts from it), the bytes of any other file.
AsciiDocx   == [name |-> "summary.docx", type |-> DocxType, content |-> "Hello",
                readable |-> TRUE]
AccentDocx  == [name |-> "minutes.docx", type |-> DocxType, content |-> EAcute,
                readable |-> TRUE]
BrokenDocx  == [name |-> "broken.docx", type |-> DocxType, content |-> "",
                readable |-> FALSE]
TextFile    == [name |-> "note.txt", type |-> "text/plain", content |-> "Hello",
                readable |-> TRUE]
CsvFile     == [name |-> "table.csv", type |-> "text/csv", content |-> "a,b",
                readable |-> TRUE]

DiskFiles == {AsciiDocx, AccentDocx, BrokenDocx, TextFile, CsvFile}

\* What the user types in the text box.
Inputs == {"", " ", "Find the contradictions."}

\* The source's texts are Chinese; these are their translations.
DefaultPrompt ==
    "Please check the uploaded case files above for contradictions and compliance in detail."

UnknownErrorText == "An unknown error occurred during the analysis"

ErrorContent(msg) ==
    "Error: " \o (IF msg = "" THEN UnknownErrorText ELSE msg)
    \o ". Please check the configuration."

\* input.slice(0, 30) || (files.length > 0 ? `${files[0].name} ...` : ...)
SessionTitle(text, fs) ==
    IF text # "" THEN SubSeq(text, 1, IF Len(text) < 30 THEN Len(text) ELSE 30)
    ELSE IF fs # <<>> THEN fs[1].name \o " analysis"
    ELSE "New review task"

\* The effect on [messages, status]: the session on display takes the
\* messages on display.
SaveMessages(ss, sid, msgs) ==
    IF msgs # <<>> /\ sid # 0
    THEN [i \in DOMAIN ss |->
             IF ss[i].id = sid THEN [ss[i] EXCEPT !.messages = msgs] ELSE ss[i]]
    ELSE ss

\* prev.filter(s => s.id !== id)
Others(ss, sid) ==
    LET Keep(s) == s.id # sid IN SelectSeq(ss, Keep)

\* The session list after handleSubmit: a new session in front, or the
\* session on display moved to the front with the new message.
Submitted(ss, sid, fresh, text, fs, msgs) ==
    IF sid = 0
    THEN <<[id |-> fresh, title |-> SessionTitle(text, fs), messages |-> msgs]>> \o ss
    ELSE IF \E i \in DOMAIN ss : ss[i].id = sid
    THEN LET current == ss[CHOOSE i \in DOMAIN ss : ss[i].id = sid]
         IN  <<[current EXCEPT !.messages = msgs]>> \o Others(ss, sid)
    ELSE ss

\* prev.map(m => m.id === responseId ? {...m, content: text} : m)
WithContent(msgs, responseId, text) ==
    [i \in DOMAIN msgs |->
        IF msgs[i].id = responseId THEN [msgs[i] EXCEPT !.content = text] ELSE msgs[i]]

\* prev.map(m => m.id === responseId ? {...m, content: ..., isError: true} : m)
WithError(msgs, responseId, msg) ==
    [i \in DOMAIN msgs |->
        IF msgs[i].id = responseId
        THEN [msgs[i] EXCEPT !.content = ErrorContent(msg), !.isError = TRUE]
        ELSE msgs[i]]

\* The request generateCaseAnalysis sends for a call that passes its
\* credential check.
Outbound(prov, key, base, m, sys, p, fs) ==
    IF UsesGoogleSdk(prov) THEN SdkRequest(key, m, p, fs)
    ELSE FetchRequest(base, prov, key, m, sys, p, fs)

\* The texts the callback receives, and the messages of the errors a call
\* rejects with ("" for an error without a message).
StreamTexts == {"a", "ab"}

FailureMessages == {"", "Failed to fetch", TooLargeMessage}

\* if ((!input.trim() && files.length === 0) || status === ANALYZING) return;
Refused == (Trim(input) = "" /\ stagedFiles = <<>>) \/ analysisStatus = "ANALYZING"

\* Mutant: the key is asked for the native provider only.
NeedsKeyGoogleOnly(prov, key) == prov = "google" /\ key = ""

\* if (settings.provider !== 'local' && !settings.apiKey)
NeedsKey(prov, key) == prov # "local" /\ key = ""

\* onChange of the text box.
SetInput ==
    /\ \E text \in Inputs : input' = text
    /\ UNCHANGED <<inputs, traced, requests, analysisStatus, messages, stagedFiles,
                   isSettingsOpen, sessions, currentSessionId, localSettings, analyses,
                   now>>

\* handleFileUpload with the files picked in the dialog.
HandleFileUpload(disk) ==
    /\ \E picked \in FileLists(disk, MaxFiles - Len(stagedFiles)) :
           /\ picked # <<>>
           /\ stagedFiles' = stagedFiles \o NewFiles(picked, 1)
    /\ UNCHANGED <<inputs, traced, requests, analysisStatus, messages, input,
                   isSettingsOpen, sessions, currentSessionId, localSettings, analyses,
                   now>>

\* removeFile
RemoveFile ==
    /\ \E index \in 1..Len(stagedFiles) :
           stagedFiles' = SubSeq(stagedFiles, 1, index - 1)
                          \o SubSeq(stagedFiles, index + 1, Len(stagedFiles))
    /\ UNCHANGED <<inputs, traced, requests, analysisStatus, messages, input,
                   isSettingsOpen, sessions, currentSessionId, localSettings, analyses,
                   now>>

\* handleSubmit up to its await, for a submit that is not refused, and the
\* effects of the render that follows.
HandleSubmit ==
    /\ ~Refused
    /\ IF NeedsKey(provider, apiKey)
       THEN /\ isSettingsOpen' = TRUE
            /\ localSettings' = IF isSettingsOpen THEN localSettings ELSE Settings
            /\ UNCHANGED <<requests, analysisStatus, messages, input, stagedFiles,
                           sessions, currentSessionId, analyses, now>>
       ELSE /\ Len(analyses) < MaxSubmits
            /\ LET newMessage == [id |-> now, role |-> "user", content |-> input,
                                  files |-> stagedFiles, isError |-> FALSE]
                   currentMessages == Append(messages, newMessage)
                   activeSessionId == IF currentSessionId = 0 THEN now
                                      ELSE currentSessionId
                   responseId == now + 1
                   placeholderMessage == [id |-> responseId, role |-> "model",
                                          content |-> "", files |-> <<>>,
                                          isError |-> FALSE]
                   shown == Append(currentMessages, placeholderMessage)
               IN  /\ currentSessionId' = activeSessionId
                   /\ messages' = shown
                   /\ sessions' = SaveMessages(
                                      Submitted(sessions, currentSessionId, now, input,
                                                stagedFiles, currentMessages),
                                      activeSessionId, shown)
                   /\ input' = ""
                   /\ stagedFiles' = <<>>
                   /\ analysisStatus' = "ANALYZING"
                   /\ requests' =
                          Append(requests,
                                 Outbound(provider, apiKey, baseUrl, model,
                                          systemInstruction,
                                          IF newMessage.content # ""
                                          THEN newMessage.content ELSE DefaultPrompt,
                                          newMessage.files))
                   /\ analyses' = Append(analyses,
                                         [responseId |-> responseId,
                                          state |-> "pending",
                                          streamContent |-> ""])
                   /\ now' = now + 2
            /\ UNCHANGED <<isSettingsOpen, localSettings>>
    /\ UNCHANGED <<inputs, traced>>

\* The callback of the i-th call is invoked with a longer text.
OnStream ==
    /\ \E i \in DOMAIN analyses, text \in StreamTexts :
           /\ analyses[i].state = "pending"
           /\ text # analyses[i].streamContent
           /\ StartsWith(text, analyses[i].streamContent)
           /\ analyses' = [analyses EXCEPT ![i].streamContent = text]
           /\ messages' = WithContent(messages, analyses[i].responseId, text)
           /\ sessions' = SaveMessages(sessions, currentSessionId,
                                       WithContent(messages, analyses[i].responseId,
                                                   text))
    /\ UNCHANGED <<inputs, traced, requests, analysisStatus, input, stagedFiles,
                   isSettingsOpen, currentSessionId, localSettings, now>>

\* The i-th call resolves: handleSubmit goes on after its await.
Resolves ==
    /\ \E i \in DOMAIN analyses :
           /\ analyses[i].state = "pending"
           /\ analyses' = [analyses EXCEPT ![i].state = "resolved"]
    /\ analysisStatus' = "COMPLETED"
    /\ sessions' = SaveMessages(sessions, currentSessionId, messages)
    /\ UNCHANGED <<inputs, traced, requests, messages, input, stagedFiles,
                   isSettingsOpen, currentSessionId, localSettings, now>>

\* The i-th call rejects: the catch block of handleSubmit.
Fails ==
    /\ \E i \in DOMAIN analyses, msg \in FailureMessages :
           /\ analyses[i].state = "pending"
           /\ analyses' = [analyses EXCEPT ![i].state = "rejected"]
           /\ messages' = WithError(messages, analyses[i].responseId, msg)
           /\ sessions' = SaveMessages(sessions, currentSessionId,
                                       WithError(messages, analyses[i].responseId, msg))
    /\ analysisStatus' = "ERROR"
    /\ UNCHANGED <<inputs, traced, requests, input, stagedFiles,
                   isSettingsOpen, currentSessionId, localSettings, now>>

\* createNewSession
CreateNewSession ==
    /\ messages' = <<>>
    /\ stagedFiles' = <<>>
    /\ input' = ""
    /\ currentSessionId' = 0
    /\ analysisStatus' = "IDLE"
    /\ UNCHANGED <<inputs, traced, requests, isSettingsOpen, sessions, localSettings,
                   analyses, now>>

\* loadSession
LoadSession ==
    /\ \E i \in DOMAIN sessions :
           /\ currentSessionId' = sessions[i].id
           /\ messages' = sessions[i].messages
    /\ stagedFiles' = <<>>
    /\ analysisStatus' = "IDLE"
    /\ UNCHANGED <<inputs, traced, requests, input, isSettingsOpen, sessions,
                   localSettings, analyses, now>>

\* deleteSession
DeleteSession ==
    /\ \E i \in DOMAIN sessions :
           /\ sessions' = Others(sessions, sessions[i].id)
           /\ IF currentSessionId = sessions[i].id
              THEN /\ messages' = <<>>
                   /\ stagedFiles' = <<>>
                   /\ input' = ""
                   /\ currentSessionId' = 0
                   /\ analysisStatus' = "IDLE"
              ELSE UNCHANGED <<messages, stagedFiles, input, currentSessionId,
                               analysisStatus>>
    /\ UNCHANGED <<inputs, traced, requests, isSettingsOpen, localSettings, analyses,
                   now>>

(***************************************************************************)
(* SettingsModal: the settings form.                                       *)
(***************************************************************************)
\* The key the form writes for the local provider.
DummyKey == "sk-dummy"

\* defaultBaseUrl and defaultModel of handleProviderChange.
FormBaseUrl(prov) ==
    IF prov = "openrouter" THEN "https://openrouter.ai/api/v1"
    ELSE IF prov = "local" THEN "http://localhost:11434/v1"
    ELSE ""

FormModel(prov) ==
    IF prov = "openrouter" THEN "anthropic/claude-3-opus"
    ELSE IF prov = "local" THEN "qwen2.5:14b"
    ELSE "gemini-3-pro-preview"

\* Mutant: leaving the local provider clears the key the form wrote.
ProviderChangedClearsDummy(form, prov) ==
    [form EXCEPT !.provider = prov,
                 !.baseUrl = FormBaseUrl(prov),
                 !.model = FormModel(prov),
                 !.apiKey = IF prov = "local" THEN DummyKey
                            ELSE IF @ = DummyKey THEN "" ELSE @]

\* The form after handleProviderChange(prov).
ProviderChanged(form, prov) ==
    [form EXCEPT !.provider = prov,
                 !.baseUrl = FormBaseUrl(prov),
                 !.model = FormModel(prov),
                 !.apiKey = IF prov = "local" THEN DummyKey ELSE @]

\* The settings button: the dialog opens, and the effect on [settings,
\* isOpen] copies the settings to the form.
OpenSettings ==
    /\ ~isSettingsOpen
    /\ isSettingsOpen' = TRUE
    /\ localSettings' = Settings
    /\ UNCHANGED <<inputs, traced, requests, analysisStatus, messages, input,
                   stagedFiles, sessions, currentSessionId, analyses, now>>

\* onClose: what the form held is dropped.
CloseSettings ==
    /\ isSettingsOpen
    /\ isSettingsOpen' = FALSE
    /\ localSettings' = Settings
    /\ UNCHANGED <<inputs, traced, requests, analysisStatus, messages, input,
                   stagedFiles, sessions, currentSessionId, analyses, now>>

\* One of the three provider buttons.
HandleProviderChange ==
    /\ isSettingsOpen
    /\ \E prov \in Providers : localSettings' = ProviderChanged(localSettings, prov)
    /\ UNCHANGED <<inputs, traced, requests, analysisStatus, messages, input,
                   stagedFiles, isSettingsOpen, sessions, currentSessionId, analyses,
                   now>>

\* onChange of the key field.
SetApiKey ==
    /\ isSettingsOpen
    /\ \E key \in ApiKeys : localSettings' = [localSettings EXCEPT !.apiKey = key]
    /\ UNCHANGED <<inputs, traced, requests, analysisStatus, messages, input,
                   stagedFiles, isSettingsOpen, sessions, currentSessionId, analyses,
                   now>>

\* The save button: onSave(localSettings); onClose().
SaveSettings ==
    /\ isSettingsOpen
    /\ provider' = localSettings.provider
    /\ apiKey' = localSettings.apiKey
    /\ baseUrl' = localSettings.baseUrl
    /\ model' = localSettings.model
    /\ systemInstruction' = localSettings.systemInstruction
    /\ isSettingsOpen' = FALSE
    /\ UNCHANGED <<traced, requests, analysisStatus, messages, input, stagedFiles,
                   sessions, currentSessionId, localSettings, analyses, now>>

(***************************************************************************)
(* Specifications.  Spec is one request with any settings; SpecSSE is a    *)
(* request to an OpenAI-compatible endpoint whose transport does not fail, *)
(* over a wider set of response bodies.                                    *)
(***************************************************************************)
SpecTranscript == <<DataA, BadLine, DataE>>

SseTranscript == <<DataA, Comment, BadLine, DoneLine, DataE, NoDelta, DataCR>>

Next ==
    \/ GenerateCaseAnalysis
    \/ FetchFails
    \/ FetchResponds(Bodies(SpecTranscript, MaxLines))
    \/ Read
    \/ ReadDone
    \/ ReadFails
    \/ SdkFails
    \/ SdkStreams
    \/ NextChunk
    \/ IterationDone
    \/ IterationFails

Spec == Init /\ [][Next]_vars

InitSSE ==
    /\ Init
    /\ provider = "local"
    /\ apiKey = ""
    /\ hasOnStream

NextSSE ==
    \/ GenerateCaseAnalysis
    \/ FetchResponds(Bodies(SseTranscript, MaxLines))
    \/ Read
    \/ ReadDone

SpecSSE == InitSSE /\ [][NextSSE]_vars

\* The same request over bodies with lines that carry no text: comments,
\* records with an empty delta, field names other than "data: ".
LineTranscript == <<Indented, EmptyDelta, Comment, DataE, NoSpace, NoDelta>>

NextLines ==
    \/ GenerateCaseAnalysis
    \/ FetchResponds(Bodies(LineTranscript, MaxLines))
    \/ Read
    \/ ReadDone

SpecLines == InitSSE /\ [][NextLines]_vars

\* Two calls in flight at the same time, their steps in any order: the
\* first one through either adapter, the second one through the HTTP
\* adapter, each with its own stream.
InitPair ==
    /\ Init
    /\ provider \in {"google", "local"}
    /\ apiKey # ""
    /\ hasOnStream

PairTranscript == <<DataA>>

PeerTranscript == <<DataE>>

NextPair ==
    \/ GenerateCaseAnalysis
    \/ FetchResponds(Bodies(PairTranscript, MaxLines))
    \/ Read
    \/ ReadDone
    \/ SdkStreams
    \/ NextChunk
    \/ IterationDone
    \/ PeerCall
    \/ PeerResponds(Bodies(PeerTranscript, MaxLines))
    \/ PeerRead
    \/ PeerReadDone

SpecPair == InitPair /\ [][NextPair]_vars

\* A request with two attachments, to its end, over short streams.
InitFrame ==
    /\ Start
    /\ Returns
    /\ baseUrl = ""
    /\ systemInstruction # ""
    /\ model = ""
    /\ prompt # ""
    /\ files = <<Docx, Png>>

NextFrame ==
    \/ GenerateCaseAnalysis
    \/ FetchFails
    \/ FetchResponds(Bodies(PairTranscript, MaxLines))
    \/ Read
    \/ ReadDone
    \/ ReadFails
    \/ SdkFails
    \/ SdkStreams
    \/ NextChunk
    \/ IterationDone
    \/ IterationFails

SpecFrame == InitFrame /\ [][NextFrame]_vars

\* Requests with attachments, up to the point where the request has gone
\* out or could not.
NextRequest ==
    \/ GenerateCaseAnalysis
    \/ FetchFails
    \/ SdkFails

InitRequest ==
    /\ Start
    /\ Returns
    /\ baseUrl = ""
    /\ systemInstruction # ""
    /\ model = ""

SpecRequest == InitRequest /\ [][NextRequest]_vars

\* Requests without attachments, with every setting.
InitSettings ==
    /\ Start
    /\ Returns
    /\ files = <<>>

SpecSettings == InitSettings /\ [][NextRequest]_vars

\* Calls whose callback throws at one of its invocations, through either
\* adapter, to the end of the stream.
InitThrow ==
    /\ Start
    /\ provider \in {"google", "local"}
    /\ apiKey # ""
    /\ baseUrl = ""
    /\ systemInstruction # ""
    /\ model = ""
    /\ hasOnStream
    /\ prompt # ""
    /\ files = <<>>

ThrowTranscript == <<DataA, BadLine, DataE>>

NextThrow ==
    \/ GenerateCaseAnalysis
    \/ FetchResponds(Bodies(ThrowTranscript, MaxLines))
    \/ Read
    \/ ReadDone
    \/ SdkStreams
    \/ NextChunk
    \/ IterationDone

SpecThrow == InitThrow /\ [][NextThrow]_vars

\* The application with a key for a hosted provider: files are attached
\* and messages are sent.
InitUpload ==
    /\ provider \in {"google", "openrouter"}
    /\ apiKey = "sk-key"
    /\ baseUrl = ""
    /\ systemInstruction = ""
    /\ model = ""
    /\ Untraced
    /\ Mounted

NextUpload ==
    \/ HandleFileUpload(DiskFiles)
    \/ RemoveFile
    \/ HandleSubmit
    \/ Resolves

SpecUpload == InitUpload /\ [][NextUpload]_vars

\* The application with any provider, with and without a key: messages
\* are sent, their calls stream and settle, sessions are opened, loaded and
\* deleted.
InitApp ==
    /\ provider \in Providers
    /\ apiKey \in ApiKeys
    /\ baseUrl = ""
    /\ systemInstruction = ""
    /\ model = ""
    /\ Untraced
    /\ Mounted

NextApp ==
    \/ SetInput
    \/ HandleSubmit
    \/ OnStream
    \/ Resolves
    \/ Fails
    \/ CreateNewSession
    \/ LoadSession
    \/ DeleteSession

SpecApp == InitApp /\ [][NextApp]_vars

\* The application and its settings form: the provider and the key are
\* changed, saved or dropped, and messages are sent.
InitForm ==
    /\ provider \in {"google", "openrouter"}
    /\ apiKey \in ApiKeys
    /\ baseUrl = ""
    /\ systemInstruction = ""
    /\ model = "gemini-3-pro-preview"
    /\ Untraced
    /\ Mounted

NextForm ==
    \/ SetInput
    \/ OpenSettings
    \/ CloseSettings
    \/ HandleProviderChange
    \/ SetApiKey
    \/ SaveSettings
    \/ HandleSubmit
    \/ Resolves

SpecForm == InitForm /\ [][NextForm]_vars


(***************************************************************************)
(* Properties.                                                             *)
(***************************************************************************)
Settled == {"resolved", "rejected"}

IsPrefix(p, s) == Len(p) <= Len(s) /\ SubSeq(s, 1, Len(p)) = p

\* C1: with an empty apiKey and a provider other than 'local' the call
\* rejects with the missing-credential error before anything goes out: no
\* adapter is entered, no request is issued, onStream is never invoked.
C1_MissingKeyRejectsFirst ==
    (apiKey = "" /\ provider # "local" /\ pc # "start")
        => /\ pc = "rejected"
           /\ error = MissingKeyMessage
           /\ requests = <<>>
           /\ calls = <<>>
           /\ status = 0
           /\ chunks = <<>>
           /\ thrown = ""

C1_Witness ==
    apiKey = "" /\ provider = "openrouter" /\ pc = "rejected" /\ error = MissingKeyMessage

\* C2: with provider 'local' and an empty apiKey the call does not reject
\* with the missing-credential error: it enters the HTTP adapter and issues
\* one fetch whose bearer token is empty.
C2_LocalNeedsNoKey ==
    (provider = "local" /\ apiKey = "" /\ pc # "start")
        => /\ error # MissingKeyMessage
           /\ Len(requests) = 1
           /\ requests[1].kind = "fetch"
           /\ requests[1].Authorization = "Bearer "

C2_Witness ==
    provider = "local" /\ apiKey = "" /\ pc = "resolved" /\ Len(requests) = 1


\* The bytes of the body the reader has returned so far.
Delivered == SubSeq(body, 1, Len(body) - Len(wire))

\* The decoder's state had the bytes all arrived in one read.
InOneRead(bytes) == ReadChunk(FreshReader, bytes, hasOnStream)

\* C3: however the bytes of a body are split into read chunks (inside a
\* line, inside a JSON record, inside a character), the values passed to
\* onStream and the cumulative text are those of reading the same bytes in
\* one chunk, and so is the returned text.
C3_SplitIndependent ==
    /\ pc = "read" =>
          /\ calls = InOneRead(Delivered).calls
          /\ fullText = InOneRead(Delivered).fullText
    /\ pc = "resolved" =>
          /\ calls = InOneRead(body).calls
          /\ result = InOneRead(body).fullText

\* A read ended inside a JSON record and inside the two bytes of a
\* character, after a first delta was delivered.
C3_Witness ==
    /\ pc = "read"
    /\ Len(calls) >= 1
    /\ pending = LeadByte
    /\ StartsWith(buffer, "data: {")

\* C4: every value passed to onStream strictly extends the one passed just
\* before it (the first one is not empty), in either adapter.
C4_CallsStrictlyGrow ==
    \A i \in 1..Len(calls) :
        LET before == IF i = 1 THEN "" ELSE calls[i - 1]
        IN  /\ Len(calls[i]) > Len(before)
            /\ IsPrefix(before, calls[i])

\* Two deltas delivered by the HTTP adapter, a malformed line between them.
C4_Witness ==
    /\ provider = "local"
    /\ pc = "read"
    /\ calls = <<"a", "a#">>

\* The last value passed to onStream, "" when it was never invoked.
LastCall == IF calls = <<>> THEN "" ELSE calls[Len(calls)]

\* C5 as stated: on success the returned string is the last value passed
\* to onStream, and is empty when onStream was never invoked.
C5_ResultIsLastCall ==
    pc = "resolved" => result = LastCall

\* C5, amended: that holds of the calls that pass onStream.  A call without
\* onStream still returns the whole accumulated text.
C5_ResultIsLastCallWhenPassed ==
    pc = "resolved" =>
        /\ hasOnStream => result = LastCall
        /\ result = fullText

C5_Witness ==
    /\ pc = "resolved"
    /\ hasOnStream
    /\ provider = "openrouter"
    /\ Len(calls) = 2
    /\ result = calls[2]

\* Each chunk's text is the whole output so far.
Cumulative(cs) ==
    \A i \in 1..Len(cs) :
        /\ cs[i] # ""
        /\ i > 1 => IsPrefix(cs[i - 1], cs[i])

RECURSIVE Concat(_, _)
Concat(cs, k) == IF k = 0 THEN "" ELSE Concat(cs, k - 1) \o cs[k]

\* The indexes of the chunks with text among the first k.
WithText(cs, k) == {i \in 1..k : cs[i] # ""}

C7_NoCallAfterSettled ==
    [][/\ pc \in Settled => (calls' = calls /\ pc' = pc)
       /\ (ReadFails \/ IterationFails) => (pc' = "rejected" /\ calls' = calls)
       /\ pc' = "resolved" =>
             /\ pc = "read" => wire = ""
             /\ pc = "iterate" => consumed = Len(chunks)
             /\ thrown' = ""]_vars

\* The connection broke inside the body after one delta was delivered.
C7_Witness ==
    /\ pc = "rejected"
    /\ wire # ""
    /\ Len(calls) = 1
    /\ thrown = "Failed to fetch"

\* C8: a response with status 413 rejects the call with the fixed guidance
\* message, which does not contain the text of the response body.
C8_TooLargeGuidance ==
    status = 413 =>
        /\ pc = "rejected"
        /\ error = TooLargeMessage
        /\ errText # "" => ~Includes(error, errText)
        /\ calls = <<>>

C8_Witness ==
    /\ status = 413
    /\ errText = "Payload Too Large"
    /\ error = TooLargeMessage

\* C9: an adapter error that is not a response of status 413 is rethrown
\* with its own message, never replaced by the guidance message.
C9_OtherErrorsUnchanged ==
    (pc = "rejected" /\ thrown # "" /\ status # 413) =>
        /\ error = thrown
        /\ error # TooLargeMessage

\* The bytes of a line that carries a payload JSON.parse rejects.
IsMalformed(line) ==
    LET trimmed == Trim(TextDecode("", line).text)
    IN  /\ StartsWith(trimmed, "data: ")
        /\ Slice(trimmed, 6) # "[DONE]"
        /\ ~JSONParse(Slice(trimmed, 6)).ok

WellFormed(line) == ~IsMalformed(line)

\* The bytes of bytes without its malformed lines (each removed with its
\* newline).
WithoutMalformed(bytes) ==
    LET lines == Split(bytes)
        last  == lines[Len(lines)]
    IN  Join(SelectSeq(SubSeq(lines, 1, Len(lines) - 1), WellFormed), TRUE)
        \o (IF IsMalformed(last) THEN "" ELSE last)

\* C10: a malformed data line does not fail the request and does not
\* interrupt delivery: the values passed to onStream and the returned text
\* are those of the same body without its malformed lines.
C10_MalformedLineSkipped ==
    /\ pc = "rejected" => body = ""
    /\ pc = "resolved" =>
          /\ calls = InOneRead(WithoutMalformed(body)).calls
          /\ result = InOneRead(WithoutMalformed(body)).fullText

\* A malformed line between two lines with content.
C10_Witness ==
    /\ pc = "resolved"
    /\ body = Join(<<DataA, BadLine, DataE>>, TRUE)
    /\ calls = <<"a", "a#">>
    /\ result = "a#"

\* The state of each adapter before it is entered.
NativeUntouched == chunks = <<>> /\ consumed = 0

HttpUntouched == status = 0 /\ body = "" /\ wire = "" /\ buffer = "" /\ pending = ""

\* C11: a call that passes the credential check enters exactly one adapter:
\* the native one (one generateContentStream, no fetch) exactly when the
\* provider is 'google', the HTTP one (one fetch, no SDK call) for
\* 'openrouter' and 'local'.
C11_RoutesByProvider ==
    (pc # "start" /\ ~(apiKey = "" /\ provider # "local")) =>
        /\ Len(requests) = 1
        /\ requests[1].kind = "generateContentStream" <=> provider = "google"
        /\ provider \in {"openrouter", "local"} => requests[1].kind = "fetch"
        /\ provider = "google" => (pc \in {"sdk", "iterate"} \cup Settled /\ HttpUntouched)
        /\ provider # "google" => (pc \in {"fetch", "read"} \cup Settled /\ NativeUntouched)

\* The hosted aggregator's call went through the HTTP adapter, the native
\* provider's through the SDK.
C11_Witness ==
    /\ provider = "openrouter"
    /\ pc = "read"
    /\ requests[1].kind = "fetch"
    /\ calls = <<"a">>

\* C12: one call issues at most one outbound request, whatever its outcome:
\* a call that failed after its request went out has issued exactly that
\* one, and nothing is issued once the call has settled.
C12_SingleAttempt ==
    /\ Len(requests) <= 1
    /\ (pc = "rejected" /\ thrown # "") => Len(requests) = 1
    /\ pc \in {"sdk", "iterate", "fetch", "read", "resolved"} => Len(requests) = 1

\* A call that failed on a 500 response has made its single fetch.
C12_Witness ==
    /\ pc = "rejected"
    /\ status = 500
    /\ Len(requests) = 1
    /\ requests[1].kind = "fetch"

\* The body of the fetch the call has issued, if it has.
Fetched == Len(requests) = 1 /\ requests[1].kind = "fetch"

IsImageRef(part) == part.type = "image_url"

HasImageType(file) == Len(file.type) >= 6 /\ SubSeq(file.type, 1, 6) = "image/"

\* C14: the image-reference parts of the user message are, in input order,
\* those of the attachments whose MIME type starts with 'image/', one each,
\* with the URI data:<mime>;base64,<payload>.
C14_OneImagePartPerImage ==
    Fetched =>
        LET refs   == SelectSeq(requests[1].userContent, IsImageRef)
            images == SelectSeq(files, HasImageType)
        IN  /\ Len(refs) = Len(images)
            /\ \A i \in 1..Len(images) :
                   refs[i].image_url.url
                       = "data:" \o images[i].type \o ";base64," \o images[i].data

\* A WebP and a PNG picture, in this order.
C14_Witness ==
    /\ Fetched
    /\ files = <<Webp, Png>>
    /\ Len(requests[1].userContent) = 3

\* The bytes the uploaded files were made of.
FileBytes == {"PNG", "RIFF", "Hello", "<>", "Hi\n", "%PDF", "a,b"}

\* The payload is the base64 of some file's bytes.
IsBase64(data) == \E t \in FileBytes : Btoa(t) = data

BytesOf(data) == CHOOSE t \in FileBytes : Btoa(t) = data

HasTextType(file) == file.type \in {"text/plain", "text/markdown", "application/json"}

IsEmbedded(part) == part.type = "text" /\ Includes(part.text, "FILE START: ")

IsDecodableText(file) == HasTextType(file) /\ IsBase64(file.data)

C16_NativeParts ==
    (Len(requests) = 1 /\ requests[1].kind = "generateContentStream") =>
        LET parts == requests[1].parts
        IN  /\ Len(parts) = Len(files) + 1
            /\ \A i \in 1..Len(files) :
                   /\ DOMAIN parts[i] = {"inlineData"}
                   /\ parts[i].inlineData.mimeType = files[i].type
                   /\ parts[i].inlineData.data = files[i].data
            /\ DOMAIN parts[Len(parts)] = {"text"}
            /\ parts[Len(parts)].text = prompt

C16_Witness ==
    /\ provider = "google"
    /\ pc = "sdk"
    /\ files = <<Pdf, Png>>
    /\ prompt # ""
    /\ Len(requests[1].parts) = 3

\* C17 as stated: the prompt part is first and every attachment contributes
\* exactly one part, so the content has 1 + |files| parts.
C17_OnePartPerFile ==
    Fetched =>
        /\ requests[1].userContent[1] = [type |-> "text", text |-> prompt]
        /\ Len(requests[1].userContent) = 1 + Len(files)

\* The attachment contributes a part: every attachment but one of a text
\* type whose payload atob rejects.
Contributes(file) == ~HasTextType(file) \/ IsBase64(file.data)

\* The part is the one the attachment contributes.
IsPartOf(part, file) ==
    IF HasImageType(file)
    THEN IsImageRef(part) /\ Includes(part.image_url.url, file.data)
    ELSE /\ part.type = "text"
         /\ Includes(part.text, file.name)
         /\ IsEmbedded(part) <=> HasTextType(file)

\* C17, amended: the prompt part is first; after it come, in input order,
\* one part for every attachment except those of a text type whose payload
\* is not base64, which contribute none.
C17_OnePartPerFileDecoded ==
    Fetched =>
        LET content == requests[1].userContent
            kept    == SelectSeq(files, Contributes)
        IN  /\ content[1] = [type |-> "text", text |-> prompt]
            /\ Len(content) = 1 + Len(kept)
            /\ \A i \in 1..Len(kept) : IsPartOf(content[i + 1], kept[i])

\* A JSON file with a truncated payload before a picture: two parts.
C17_Witness ==
    /\ Fetched
    /\ files = <<Truncated, Png>>
    /\ Len(requests[1].userContent) = 2
    /\ IsImageRef(requests[1].userContent[2])

\* The lines of the body bytes that are ended by a newline.
CompleteLines(bytes) ==
    LET lines == Split(TextDecode("", bytes).text)
    IN  SubSeq(lines, 1, Len(lines) - 1)

\* The delta content of a line: that of the record after "data: ", ""
\* when the line is not such a record or its record has no content.
ContentOf(line) ==
    LET carried == {c \in Contents : Trim(line) = "data: " \o RecordText(c)}
    IN  IF carried = {} THEN "" ELSE CHOOSE c \in carried : TRUE

NonEmpty(text) == text # ""

\* The non-empty delta contents of the complete lines of bytes, in order.
Deltas(bytes) ==
    LET lines == CompleteLines(bytes)
    IN  SelectSeq([i \in 1..Len(lines) |-> ContentOf(lines[i])], NonEmpty)

\* C18: the returned text is the concatenation of the non-empty delta
\* contents of the complete data lines, in stream order, and onStream was
\* invoked once for each of them, with the concatenation up to it; a record
\* without content or with an empty one adds no call and no text.
C18_ResultIsConcatenation ==
    /\ pc = "resolved" =>
          /\ result = Concat(Deltas(body), Len(Deltas(body)))
          /\ Len(calls) = Len(Deltas(body))
    /\ pc \in {"read", "resolved"} =>
          /\ Len(calls) <= Len(Deltas(body))
          /\ \A k \in 1..Len(calls) : calls[k] = Concat(Deltas(body), k)

\* Two deltas with an empty one between them.
C18_Witness ==
    /\ pc = "resolved"
    /\ body = Join(<<Indented, EmptyDelta, DataE>>, TRUE)
    /\ calls = <<"a", "a#">>
    /\ result = "a#"

\* The bytes of bytes without the complete lines that Keep rejects (each
\* removed with its newline).
KeepLines(bytes, Keep(_)) ==
    LET lines == Split(bytes)
    IN  Join(SelectSeq(SubSeq(lines, 1, Len(lines) - 1), Keep), TRUE)
        \o lines[Len(lines)]

\* The first six characters of the line are "data: ".
HasDataPrefix(line) == Len(line) >= 6 /\ SubSeq(line, 1, 6) = "data: "

\* The line is "data: " and more after the white space around it is removed.
HasDataPrefixTrimmed(line) == HasDataPrefix(Trim(TextDecode("", line).text))

\* C19 as stated: a complete line whose first six characters are not
\* "data: " is ignored: the calls and the returned text are those of the
\* body without these lines.
C19_NonDataLineIgnored ==
    pc = "resolved" =>
        /\ calls = InOneRead(KeepLines(body, HasDataPrefix)).calls
        /\ result = InOneRead(KeepLines(body, HasDataPrefix)).fullText

\* C19, amended: the prefix is looked for after the white space around the
\* line is removed.  A complete line that does not start with "data: " then
\* is ignored; a data line written after white space is not.
C19_TrimmedNonDataLineIgnored ==
    pc = "resolved" =>
        /\ calls = InOneRead(KeepLines(body, HasDataPrefixTrimmed)).calls
        /\ result = InOneRead(KeepLines(body, HasDataPrefixTrimmed)).fullText
        /\ (\A i \in 1..Len(CompleteLines(body)) :
                ~HasDataPrefixTrimmed(CompleteLines(body)[i]))
              => (calls = <<>> /\ result = "")

\* A comment and a record after "data:" without the space, around a data
\* line: one call.
C19_Witness ==
    /\ pc = "resolved"
    /\ body = Join(<<Comment, DataE, NoSpace>>, TRUE)
    /\ calls = <<"#">>
    /\ result = "#"

\* The line is not the sentinel.
NotDone(line) == Trim(TextDecode("", line).text) # "data: [DONE]"

\* C20: the sentinel line takes no action.  While bytes are outstanding the
\* call stays in its read loop, whatever lines it has received; it resolves
\* only by the step in which the reader reports the end of the stream, and
\* then the calls and the returned text are those of the body without its
\* sentinel lines: the data lines after a sentinel are delivered.
C20_DoneTakesNoAction ==
    [][/\ (pc = "read" /\ wire # "") => pc' = "read"
       /\ (pc # "resolved" /\ pc' = "resolved") =>
             /\ ReadDone
             /\ calls' = InOneRead(KeepLines(body, NotDone)).calls
             /\ result' = InOneRead(KeepLines(body, NotDone)).fullText]_vars

\* A delta before the sentinel and one after it.
C20_Witness ==
    /\ pc = "resolved"
    /\ body = Join(<<DataA, DoneLine, DataE>>, TRUE)
    /\ calls = <<"a", "a#">>
    /\ result = "a#"

\* The bytes of its body the second call's reader has returned so far.
PeerDelivered == SubSeq(peer.body, 1, Len(peer.body) - Len(peer.wire))

\* C13: with two calls in flight and their chunks interleaved in any order,
\* the calls and the text of each call are those of its own stream read
\* alone: nothing of the other call's text or line buffer enters them.
C13_CallsAreIndependent ==
    /\ (provider = "local" /\ pc = "read") =>
          /\ calls = InOneRead(Delivered).calls
          /\ fullText = InOneRead(Delivered).fullText
          /\ buffer = InOneRead(Delivered).buffer
    /\ (provider = "local" /\ pc = "resolved") =>
          /\ calls = InOneRead(body).calls
          /\ result = InOneRead(body).fullText
    /\ (provider = "google" /\ pc \in {"iterate", "resolved"}) =>
          /\ fullText = Concat(chunks, consumed)
          /\ Len(calls) = Cardinality(WithText(chunks, consumed))
          /\ calls # <<>> => calls[Len(calls)] = fullText
          /\ pc = "resolved" => result = Concat(chunks, Len(chunks))
    /\ peer.pc \in {"read", "resolved"} =>
          /\ peer.calls = InOneRead(PeerDelivered).calls
          /\ peer.fullText = InOneRead(PeerDelivered).fullText
          /\ peer.buffer = InOneRead(PeerDelivered).buffer
          /\ peer.pc = "resolved" => peer.result = InOneRead(peer.body).fullText

\* Both calls are in their read loops: the first has delivered its delta,
\* the second has read a part of its line after that.
C13_Witness ==
    /\ pc = "read"
    /\ peer.pc = "read"
    /\ calls = <<"a">>
    /\ StartsWith(peer.buffer, "data: {")
    /\ peer.wire # ""

\* The bytes of bytes up to its last newline: its complete lines.
CompleteBytes(bytes) ==
    LET lines == Split(bytes)
    IN  Join(SubSeq(lines, 1, Len(lines) - 1), TRUE)

\* The text after the last newline of bytes.
LastFragment(bytes) ==
    LET lines == Split(TextDecode("", bytes).text)
    IN  lines[Len(lines)]

\* C21: when the stream ends, the text after the last newline is still in
\* the buffer and is not parsed: the calls and the returned text are those
\* of the complete lines alone, also when the last line is a well-formed
\* data line.
C21_LastFragmentDiscarded ==
    pc = "resolved" =>
        /\ calls = InOneRead(CompleteBytes(body)).calls
        /\ result = InOneRead(CompleteBytes(body)).fullText
        /\ buffer = LastFragment(body)
        /\ ContentOf(LastFragment(body)) # ""
              => Len(result) < Len(InOneRead(body \o "\n").fullText)

\* A body of two data lines, the second one without its newline: only the
\* first delta was delivered.
C21_Witness ==
    /\ pc = "resolved"
    /\ body = Join(<<DataA, DataE>>, FALSE)
    /\ calls = <<"a">>
    /\ result = "a"
    /\ buffer # ""

\* C22: onStream is invoked inside the loop body, in arrival order.  No step
\* reorders or removes earlier calls; when the step that handles a read
\* chunk ends (and the next chunk is asked for), every call due for the
\* bytes received so far has been made, so none is outstanding that a call
\* for a later chunk could overtake.  The same holds of the chunks of the
\* SDK iterator.
C22_CallsInArrivalOrder ==
    [][/\ IsPrefix(calls, calls')
       /\ (hasOnStream /\ pc' = "read" /\ wire' # wire) =>
             Len(calls') = Len(Deltas(SubSeq(body, 1, Len(body) - Len(wire'))))
       /\ (hasOnStream /\ pc' = "iterate" /\ consumed' # consumed) =>
             /\ Len(calls') = Cardinality(WithText(chunks, consumed'))
             /\ calls' # calls => calls'[Len(calls')] = Concat(chunks, consumed')]_vars

\* All the bytes of a body with two deltas have been read and both calls
\* have been made, before the end of the stream is reported.
C22_Witness ==
    /\ hasOnStream
    /\ provider = "openrouter"
    /\ pc = "read"
    /\ body = Join(<<DataA, BadLine, DataE>>, TRUE)
    /\ wire = ""
    /\ calls = <<"a", "a#">>

\* C23: in the native adapter, with a stream callback, the number of calls
\* is the number of chunks with text iterated so far; the step for a chunk
\* without text makes no call and leaves the running total as it was, the
\* step for a chunk with text makes one call.
C23_OneCallPerChunkWithText ==
    [][(provider = "google" /\ hasOnStream /\ pc = "iterate" /\ consumed' = consumed + 1) =>
          /\ Len(calls') = Cardinality({i \in 1..consumed' : chunks[i] # ""})
          /\ chunks[consumed'] = "" => (calls' = calls /\ fullText' = fullText)
          /\ chunks[consumed'] # "" => (Len(calls') = Len(calls) + 1
                                         /\ fullText' # fullText)]_vars

\* A chunk without text, then one with text: one call.
C23_Witness ==
    /\ provider = "google"
    /\ hasOnStream
    /\ pc = "resolved"
    /\ chunks = <<"", "a">>
    /\ calls = <<"a">>

\* The digits of the status codes of the responses.
Digits(code) == IF code = 413 THEN "413" ELSE IF code = 500 THEN "500" ELSE "200"

\* C24: a response with a status outside 200..299 makes the HTTP adapter
\* throw an error whose message holds the status code and the whole text of
\* the response body; the body is not handed to the stream decoder and
\* onStream is never invoked.
C24_NonOkStatusFails ==
    (status # 0 /\ ~(status >= 200 /\ status <= 299)) =>
        /\ pc = "rejected"
        /\ Includes(thrown, "(" \o Digits(status) \o ")")
        /\ Len(thrown) >= Len(errText)
        /\ SubSeq(thrown, Len(thrown) - Len(errText) + 1, Len(thrown)) = errText
        /\ calls = <<>>
        /\ fullText = ""
        /\ result = ""
        /\ body = "" /\ wire = "" /\ buffer = "" /\ pending = ""

\* A 500 response with a body text.
C24_Witness ==
    /\ status = 500
    /\ errText = "quota exceeded (request 4130)"
    /\ thrown = "Provider Error (500): quota exceeded (request 4130)"

\* C25: an ok response without a body makes the call reject with the
\* adapter's own error, unchanged by the catch block; no call of onStream
\* is made and no text is returned.
C25_NoBodyFails ==
    [][(pc = "fetch" /\ status' >= 200 /\ status' <= 299 /\ pc' # "read") =>
          /\ pc' = "rejected"
          /\ thrown' = "No response body"
          /\ error' = thrown'
          /\ calls' = <<>>
          /\ result' = ""
          /\ fullText' = ""]_vars

C25_Witness ==
    /\ pc = "rejected"
    /\ status = 200
    /\ error = "No response body"
    /\ calls = <<>>
    /\ result = ""

\* The attachment is neither a picture nor of a text type.
IsOther(file) == ~HasImageType(file) /\ ~HasTextType(file)

\* The part is a note: a text part without the FILE START marker.
IsNote(part) == part.type = "text" /\ ~IsEmbedded(part)

\* C26: the notes after the prompt are, in input order, those of the
\* attachments that are neither pictures nor of a text type, one each: the
\* note names the file and its type and does not hold its payload.  The
\* three classes exclude each other and leave no attachment out: every
\* part after the prompt is a picture reference, an embedded text or a
\* note, and no attachment gives more than one part.
C26_OtherFilesDisclosed ==
    Fetched =>
        LET after  == Tail(requests[1].userContent)
            notes  == SelectSeq(after, IsNote)
            others == SelectSeq(files, IsOther)
        IN  /\ Len(notes) = Len(others)
            /\ \A i \in 1..Len(others) :
                   /\ Includes(notes[i].text, "file " \o others[i].name \o " ")
                   /\ Includes(notes[i].text, "(" \o others[i].type \o ")")
                   /\ ~Includes(notes[i].text, others[i].data)
            /\ Len(after) = Len(SelectSeq(after, IsImageRef))
                            + Len(SelectSeq(after, IsEmbedded)) + Len(notes)
            /\ Len(SelectSeq(after, IsImageRef)) = Len(SelectSeq(files, HasImageType))
            /\ Len(SelectSeq(after, IsEmbedded)) <= Len(SelectSeq(files, HasTextType))

\* A PDF and a CSV table: two notes.
C26_Witness ==
    /\ Fetched
    /\ files = <<Pdf, Csv>>
    /\ Len(requests[1].userContent) = 3
    /\ IsNote(requests[1].userContent[3])

IsUserMessage(message) == message.role = "user"

IsSystemMessage(message) == message.role = "system"

\* C27: the message list ends with the user message, the only one of its
\* role, whose content is the list of parts; before it stands the system
\* message with the instruction when an instruction is set (a non-empty
\* string), and nothing otherwise.
C27_MessageList ==
    Fetched =>
        LET sent == requests[1].messages
        IN  /\ Len(SelectSeq(sent, IsUserMessage)) = 1
            /\ sent[Len(sent)].role = "user"
            /\ sent[Len(sent)].content = requests[1].userContent
            /\ systemInstruction # "" =>
                  /\ Len(sent) = 2
                  /\ sent[1].role = "system"
                  /\ sent[1].content = systemInstruction
            /\ systemInstruction = "" => Len(sent) = 1

\* A request with an instruction: the system message, then the user message.
C27_Witness ==
    /\ Fetched
    /\ systemInstruction = "You are a case auditor."
    /\ Len(requests[1].messages) = 2
    /\ requests[1].messages[2].role = "user"

\* The base URL the request is made to.
Base == IF baseUrl # "" THEN baseUrl
        ELSE IF provider = "openrouter" THEN "https://openrouter.ai/api/v1"
        ELSE "http://localhost:11434/v1"

EndsWith(s, e) == Len(s) >= Len(e) /\ SubSeq(s, Len(s) - Len(e) + 1, Len(s)) = e

\* C28 as stated: the URL is the base URL without its trailing slashes
\* followed by /chat/completions: no slash stands before /chat/completions,
\* whatever the base URL.
C28_NoSlashBeforePath ==
    Fetched =>
        /\ EndsWith(requests[1].url, "/chat/completions")
        /\ IsPrefix(SubSeq(requests[1].url, 1, Len(requests[1].url) - 17), Base)
        /\ ~EndsWith(requests[1].url, "//chat/completions")

\* C28, amended: one trailing slash is removed, not every one.  The URL is
\* the base URL, without its last character when that is a slash, followed
\* by /chat/completions; no slash stands before /chat/completions unless
\* the base URL ends with two slashes.
C28_OneSlashStripped ==
    Fetched =>
        /\ requests[1].url
              = (IF EndsWith(Base, "/") THEN SubSeq(Base, 1, Len(Base) - 1) ELSE Base)
                \o "/chat/completions"
        /\ ~EndsWith(Base, "//") => ~EndsWith(requests[1].url, "//chat/completions")

\* A base URL typed with a trailing slash.
C28_Witness ==
    /\ Fetched
    /\ baseUrl = "https://llm.example/v1/"
    /\ requests[1].url = "https://llm.example/v1/chat/completions"

\* C29: every fetch carries Content-Type and the bearer Authorization made
\* of the API key; it carries the two identification headers (the page's
\* origin as HTTP-Referer, the client title as X-Title) exactly when the
\* provider is 'openrouter'.
C29_Headers ==
    Fetched =>
        LET headers == requests[1].headers
        IN  /\ {"Content-Type", "Authorization"} \subseteq DOMAIN headers
            /\ headers["Content-Type"] = "application/json"
            /\ headers["Authorization"] = "Bearer " \o apiKey
            /\ "HTTP-Referer" \in DOMAIN headers <=> provider = "openrouter"
            /\ "X-Title" \in DOMAIN headers <=> provider = "openrouter"
            /\ provider = "openrouter" =>
                  /\ headers["HTTP-Referer"] = "https://audit.example"
                  /\ headers["X-Title"] = "AuditAI"
            /\ provider = "local" =>
                  DOMAIN headers = {"Content-Type", "Authorization"}

\* A request to the hosted aggregator with its four headers.
C29_Witness ==
    /\ Fetched
    /\ provider = "openrouter"
    /\ DOMAIN requests[1].headers
           = {"Content-Type", "Authorization", "HTTP-Referer", "X-Title"}

\* C30: no step of a call changes its arguments: from the call to its
\* settling, in either adapter, the files list, the files in it and the
\* settings are what the caller passed.
C30_InputsUnchanged ==
    [][/\ files' = files
       /\ provider' = provider
       /\ apiKey' = apiKey
       /\ baseUrl' = baseUrl
       /\ systemInstruction' = systemInstruction
       /\ prompt' = prompt]_vars

\* A call with two attachments has resolved through the HTTP adapter, and
\* the list still holds the two files.
C30_Witness ==
    /\ pc = "resolved"
    /\ provider = "local"
    /\ files = <<Docx, Png>>
    /\ files[1].data = "w6k="
    /\ Len(requests[1].userContent) = 3
    /\ result = "a"

(***************************************************************************)
(* C31: the thinking budget of the native request.                         *)
(***************************************************************************)
\* The model identifier the native adapter uses.
EffectiveModel == IF model = "" THEN "gemini-3-pro-preview" ELSE model

\* The identifier names the 2.5 series somewhere.
NamesSeries25(id) == \E i \in 1..(Len(id) - 9) : SubSeq(id, i, i + 9) = "gemini-2.5"

\* C31: every request of the native adapter carries an output cap of 8192;
\* it carries a thinking budget of zero exactly when the effective model
\* identifier does not contain 'gemini-2.5', and no thinking configuration
\* at all when it does.
C31_ThinkingBudget ==
    \A i \in 1..Len(requests) :
        requests[i].kind = "generateContentStream" =>
            /\ requests[i].model = EffectiveModel
            /\ requests[i].maxOutputTokens = 8192
            /\ (requests[i].thinkingConfig = [thinkingBudget |-> 0])
                   <=> ~NamesSeries25(EffectiveModel)
            /\ NamesSeries25(EffectiveModel)
                   => requests[i].thinkingConfig = [t |-> "undefined"]

\* A native request for a 2.5 model named with a path prefix has gone out.
C31_Witness ==
    /\ model = "models/gemini-2.5-pro"
    /\ Len(requests) = 1
    /\ requests[1].kind = "generateContentStream"

(***************************************************************************)
(* C32: a stream callback that throws.                                     *)
(***************************************************************************)
\* The callback has thrown: it has been invoked as often as it takes.
HasThrown == onStreamThrowsAt > 0 /\ Len(calls) >= onStreamThrowsAt

\* C32: once the callback has thrown, a request of the HTTP adapter goes on
\* as if it had returned (no error comes of it, the delta it was invoked
\* for stays in the total, and at the end every delta of the stream has been
\* delivered and is in the result), while a request of the native adapter
\* is rejected with the callback's error and invokes the callback no more.
C32_CallbackThrows ==
    HasThrown =>
        IF provider = "google"
        THEN /\ pc = "rejected"
             /\ thrown = CallbackMessage
             /\ error = CallbackMessage
             /\ Len(calls) = onStreamThrowsAt
        ELSE /\ pc \in {"read", "resolved"}
             /\ thrown = ""
             /\ error = ""
             /\ Len(calls) <= Len(Deltas(body))
             /\ \A k \in 1..Len(calls) :
                    k <= Len(Deltas(body)) => calls[k] = Concat(Deltas(body), k)
             /\ fullText = calls[Len(calls)]
             /\ pc = "resolved" =>
                    /\ Len(calls) = Len(Deltas(body))
                    /\ result = Concat(Deltas(body), Len(Deltas(body)))

\* The callback threw at its first invocation, and the HTTP adapter
\* delivered a second delta and resolved with both.
C32_Witness ==
    /\ provider = "local"
    /\ onStreamThrowsAt = 1
    /\ pc = "resolved"
    /\ Len(calls) = 2
    /\ result = "a" \o EAcute

\* The callback threw at its first invocation in the native adapter, with
\* a chunk still to come.
C32_NativeWitness ==
    /\ provider = "google"
    /\ onStreamThrowsAt = 1
    /\ pc = "rejected"
    /\ Len(calls) = 1
    /\ consumed < Len(chunks)

(***************************************************************************)
(* C36: the text of a .docx, from the upload to the request.               *)
(***************************************************************************)
\* The documents whose text handleFileUpload extracts.
IsDocument(file) == file.type = DocxType /\ file.readable

\* C36: in every request of the HTTP adapter, the part embedded for an
\* uploaded .docx holds, between the FILE START marker with the document's
\* name and the FILE END marker, the text extracted from the document.
C36_DocxRoundTrip ==
    \A i \in DOMAIN requests :
        requests[i].kind = "fetch" =>
            \A doc \in {file \in DiskFiles : IsDocument(file)} :
                \A k \in DOMAIN requests[i].userContent :
                    LET part == requests[i].userContent[k]
                    IN  (part.type = "text"
                         /\ StartsWith(part.text,
                                       "\n\n--- FILE START: " \o doc.name \o " ---\n"))
                        => part.text = "\n\n--- FILE START: " \o doc.name \o " ---\n"
                                       \o doc.content \o "\n--- FILE END ---\n"

(***************************************************************************)
(* C33 - C35: handleSubmit and the sessions.                               *)
(***************************************************************************)
\* The calls that have not settled.
InFlight == {i \in DOMAIN analyses : analyses[i].state = "pending"}

\* C33: at most one call to generateCaseAnalysis is in flight at any time,
\* whatever submit, new-session, load-session and delete-session actions
\* came before.
C33_OneInFlight == Cardinality(InFlight) <= 1

\* The i-th call settles in this step, in the given way.
Settles(i, how) ==
    /\ analyses[i].state = "pending"
    /\ i \in DOMAIN analyses'
    /\ analyses'[i].state = how

\* C34: a step that accepts a submit sets the status to ANALYZING; a step
\* in which a call resolves sets it to COMPLETED and leaves the messages as
\* they are; a step in which a call rejects sets it to ERROR, marks the
\* placeholder message of that call as an error with the error text as its
\* content, and leaves every other message as it is.
C34_SubmitSettles ==
    [][/\ Len(analyses') > Len(analyses) => analysisStatus' = "ANALYZING"
       /\ \A i \in DOMAIN analyses :
              /\ Settles(i, "resolved") =>
                     /\ analysisStatus' = "COMPLETED"
                     /\ messages' = messages
              /\ Settles(i, "rejected") =>
                     /\ analysisStatus' = "ERROR"
                     /\ Len(messages') = Len(messages)
                     /\ \E k \in DOMAIN messages' :
                            /\ messages'[k].id = analyses[i].responseId
                            /\ messages'[k].isError
                            /\ \E msg \in FailureMessages :
                                   messages'[k].content = ErrorContent(msg)
                     /\ \A k \in DOMAIN messages :
                            (k \in DOMAIN messages'
                             /\ messages[k].id # analyses[i].responseId)
                                => messages'[k] = messages[k]]_vars

\* C35: while the provider is not 'local' and the key is empty, no step
\* calls generateCaseAnalysis or sends a request, and the step that opens
\* the settings dialog leaves the messages, the sessions, the pending
\* files, the input and the status as they are.
C35_MissingKeyOnlyOpensSettings ==
    [][(provider # "local" /\ apiKey = "") =>
           /\ Len(analyses') = Len(analyses)
           /\ requests' = requests
           /\ (~isSettingsOpen /\ isSettingsOpen') =>
                  UNCHANGED <<messages, sessions, stagedFiles, input,
                              analysisStatus>>]_vars

\* After an answered message the key was removed, and the dialog is open
\* over the conversation with the next text still in the box.
C35_Witness ==
    /\ provider = "openrouter"
    /\ apiKey = ""
    /\ isSettingsOpen
    /\ localSettings = Settings
    /\ input = "Find the contradictions."
    /\ Len(messages) = 2
    /\ Len(sessions) = 1
    /\ analysisStatus = "COMPLETED"

(***************************************************************************)
(* C37: the key the settings form writes for the local provider.           *)
(***************************************************************************)
\* C37: a step of the form that changes the provider to 'local' sets the
\* form's key to 'sk-dummy', and one that changes it to another provider
\* keeps the form's key, 'sk-dummy' included; with the key 'sk-dummy' the
\* credential check of generateCaseAnalysis passes for every provider.
C37_DummyKeyStays ==
    [][/\ (isSettingsOpen /\ isSettingsOpen'
           /\ localSettings'.provider # localSettings.provider) =>
              localSettings'.apiKey = IF localSettings'.provider = "local"
                                      THEN "sk-dummy"
                                      ELSE localSettings.apiKey
       /\ apiKey = "sk-dummy" => ~MissingCredential(apiKey, provider)
       /\ (apiKey = "sk-dummy" /\ Len(analyses') > Len(analyses)) =>
              Len(requests') > Len(requests)]_vars

\* The form went from a hosted provider to 'local' and on to the hosted
\* aggregator, was saved, and a request has gone out with the dummy key.
C37_Witness ==
    /\ provider = "openrouter"
    /\ apiKey = "sk-dummy"
    /\ Len(requests) = 1
    /\ requests[1].kind = "fetch"
    /\ requests[1].Authorization = "Bearer sk-dummy"

=============================================================================
